---------------------------- MODULE Spec2Model ----------------------------
(***************************************************************************)
(* Model of the content validation engine of the travel showcase site:     *)
(* validateTripData, validateAllTripsFromData, validateContentFormat and   *)
(* generateValidationReport (test build of the validation utilities,       *)
(* src/unnamed/part_002), the astro:build:start hook of the                *)
(* contentValidation integration (src/src/integrations) and the command    *)
(* line script with its own validator (src/unnamed/part_000).              *)
(*                                                                         *)
(* The validators take values of type `any`, so the model carries          *)
(* JavaScript values as tagged records and gives property access,          *)
(* truthiness, comparison and method calls their JavaScript meaning,       *)
(* exceptions included.                                                    *)
(***************************************************************************)
EXTENDS Integers, Sequences, FiniteSets, TLC

VARIABLES op, pc, tripData, tripId, now, trips, content, result, results,
          report, previous, options, log, args, tripsDir

vars == <<op, pc, tripData, tripId, now, trips, content, result, results,
          report, previous, options, log, args, tripsDir>>

----------------------------------------------------------------------------
(* JavaScript values.  A string is the sequence of its characters; a Date  *)
(* is its time value in milliseconds, counted from 2024-01-01T00:00Z; a    *)
(* number is a fixed-point value in ten-thousandths (see Whole); an object   *)
(* carries every property name of the model, absent ones as Undef (a       *)
(* property read cannot tell the two apart).                               *)

Undef == [t |-> "undefined"]

Null == [t |-> "null"]

Num(n) == [t |-> "number", n |-> n]

Str(s) == [t |-> "string", s |-> s]

DateV(ms) == [t |-> "date", ms |-> ms]

InvalidDate == [t |-> "invalidDate"]

Arr(a) == [t |-> "array", a |-> a]

Obj(f) == [t |-> "object", f |-> f]

\* The whole number n as a fixed-point number: 90.0001 is Whole(90) + 1.
Whole(n) == n * 10000

\* The decimal digits of a fraction 0 < f < 10000 of four places, trailing
\* zeros dropped, as Number.prototype.toString prints them.
RECURSIVE FracDigits(_, _)
FracDigits(f, places) ==
  IF f = 0 \/ places = 0 THEN ""
  ELSE LET unit == IF places = 4 THEN 1000 ELSE IF places = 3 THEN 100
                   ELSE IF places = 2 THEN 10 ELSE 1
       IN ToString(f \div unit) \o FracDigits(f % unit, places - 1)

\* `${n}` of a number.
NumToString(n) ==
  LET a == IF n < 0 THEN -n ELSE n
      whole == ToString(a \div 10000)
      frac == a % 10000
  IN (IF n < 0 THEN "-" ELSE "")
       \o whole \o (IF frac = 0 THEN "" ELSE "." \o FracDigits(frac, 4))

\* if (v): undefined, null, "", 0 and NaN are falsy; every object, array and
\* Date (an invalid one too) is truthy.
Truthy(v) ==
  CASE v.t = "undefined" -> FALSE
    [] v.t = "null" -> FALSE
    [] v.t = "string" -> Len(v.s) > 0
    [] v.t = "number" -> v.n # 0
    [] OTHER -> TRUE

\* o.k where o is neither null nor undefined: a property of an object, and
\* undefined on a primitive, an array or a Date for the names of the model.
Get(o, k) == IF o.t = "object" /\ k \in DOMAIN o.f THEN o.f[k] ELSE Undef

\* Reading a property of null or undefined raises a TypeError.
IsNullish(v) == v.t \in {"undefined", "null"}

\* s.startsWith(p) on strings.
StartsWith(s, p) == Len(s) >= Len(p) /\ SubSeq(s, 1, Len(p)) = p

\* ToNumber in a relational comparison: a Date has its time value, null is
\* 0, and an invalid Date or undefined is NaN (the model puts no other value
\* in a compared position).
HasNumber(v) == v.t \in {"date", "number", "null"}

\* The value of a number or of null.
NumberOf(v) == IF v.t = "null" THEN 0 ELSE v.n

\* a < b, false as soon as an operand is NaN.  The time value of a Date of
\* the model counts from 2024 and its true value from 1970: a Date is greater
\* than null and than every number of the model.
JsLess(a, b) ==
  /\ HasNumber(a)
  /\ HasNumber(b)
  /\ IF a.t = "date" /\ b.t = "date" THEN a.ms < b.ms
     ELSE IF a.t = "date" THEN FALSE
     ELSE IF b.t = "date" THEN TRUE
     ELSE NumberOf(a) < NumberOf(b)

\* a > b
JsGreater(a, b) == JsLess(b, a)

\* Concatenation of a sequence of sequences.
RECURSIVE Flatten(_)
Flatten(ss) == IF ss = <<>> THEN <<>> ELSE Head(ss) \o Flatten(Tail(ss))

\* The sequences over S of length at most n.
SeqUpTo(S, n) == UNION {[1..k -> S] : k \in 0..n}

----------------------------------------------------------------------------
(* The zod schema.  tripSchema.parse collects one issue per violated       *)
(* constraint, depth first, in the order of the schema's keys and of the   *)
(* elements of an array; an issue is the path of the offending value and a *)
(* message.  The records of the model carry none of the optional           *)
(* properties (unit, title, description of a gallery entry, date,          *)
(* registrationUrl, isPublic, photo, role), for which an absent value is   *)
(* accepted.                                                               *)

Issue(path, message) == [path |-> path, message |-> message]

\* The characters of a string as one piece of text.
RECURSIVE Text(_)
Text(s) == IF s = <<>> THEN "" ELSE Head(s) \o Text(Tail(s))

\* zod's name for the type of the value it received.
ZodTypeOf(v) == IF v.t = "invalidDate" THEN "date" ELSE v.t

\* TypeIssue with an absent value accepted, as if the schema were optional.
TypeIssueOptional(v, expected, path) ==
  IF v.t = "undefined" THEN <<>>
  ELSE <<Issue(path, "Expected " \o expected \o ", received " \o ZodTypeOf(v))>>

\* invalid_type: "Required" for undefined, "Expected X, received Y" otherwise.
TypeIssue(v, expected, path) ==
  <<Issue(path, IF v.t = "undefined" THEN "Required"
                ELSE "Expected " \o expected \o ", received " \o ZodTypeOf(v))>>

\* z.string().min(1, message)
ZString(v, path, message) ==
  IF v.t # "string" THEN TypeIssue(v, "string", path)
  ELSE IF Len(v.s) < 1 THEN <<Issue(path, message)>> ELSE <<>>

\* z.string().min(10, message)
ZDescription(v, path, message) ==
  IF v.t # "string" THEN TypeIssue(v, "string", path)
  ELSE IF Len(v.s) < 10 THEN <<Issue(path, message)>> ELSE <<>>

\* z.date()
ZDate(v, path) ==
  IF v.t = "invalidDate" THEN <<Issue(path, "Invalid date")>>
  ELSE IF v.t # "date" THEN TypeIssue(v, "date", path) ELSE <<>>

COMPLETED == <<"c", "o", "m", "p", "l", "e", "t", "e", "d">>

CURRENT == <<"c", "u", "r", "r", "e", "n", "t">>

PLANNED == <<"p", "l", "a", "n", "n", "e", "d">>

StatusEnum == "'completed' | 'current' | 'planned'"

\* z.enum(['completed', 'current', 'planned'])
ZStatus(v, path) ==
  IF v.t # "string" THEN TypeIssue(v, StatusEnum, path)
  ELSE IF v.s \notin {COMPLETED, CURRENT, PLANNED}
       THEN <<Issue(path, "Invalid enum value. Expected " \o StatusEnum
                            \o ", received '" \o Text(v.s) \o "'")>>
       ELSE <<>>

\* z.number().min(0, message)
ZNumberMin0(v, path, message) ==
  IF v.t # "number" THEN TypeIssue(v, "number", path)
  ELSE IF v.n < 0 THEN <<Issue(path, message)>> ELSE <<>>

\* An element of stats.
ZStat(v, path) ==
  IF v.t # "object" THEN TypeIssue(v, "object", path)
  ELSE ZString(Get(v, "id"), path \o <<"id">>, "Stat id is required")
       \o ZNumberMin0(Get(v, "value"), path \o <<"value">>,
                      "Stat value must be positive")
       \o ZString(Get(v, "label"), path \o <<"label">>, "Stat label is required")
       \o ZString(Get(v, "icon"), path \o <<"icon">>, "Stat icon is required")

\* z.tuple([z.number(), z.number()]): a too short array aborts, a too long one
\* is reported and its first two elements are still checked.
ZTuple2(v, path) ==
  IF v.t # "array" THEN TypeIssue(v, "array", path)
  ELSE IF Len(v.a) < 2
       THEN <<Issue(path, "Array must contain at least 2 element(s)")>>
       ELSE (IF Len(v.a) > 2
             THEN <<Issue(path, "Array must contain at most 2 element(s)")>>
             ELSE <<>>)
            \o (IF v.a[1].t # "number"
                THEN TypeIssue(v.a[1], "number", path \o <<"0">>) ELSE <<>>)
            \o (IF v.a[2].t # "number"
                THEN TypeIssue(v.a[2], "number", path \o <<"1">>) ELSE <<>>)

\* An element of route.waypoints.
ZWaypoint(v, path) ==
  IF v.t # "object" THEN TypeIssue(v, "object", path)
  ELSE ZString(Get(v, "name"), path \o <<"name">>, "Waypoint name is required")
       \o ZTuple2(Get(v, "coordinates"), path \o <<"coordinates">>)

\* An element of gallery.
ZGalleryItem(v, path) ==
  IF v.t # "object" THEN TypeIssue(v, "object", path)
  ELSE ZString(Get(v, "image"), path \o <<"image">>,
               "Gallery image path is required")

\* An element of activities.
ZActivity(v, path) ==
  IF v.t # "object" THEN TypeIssue(v, "object", path)
  ELSE ZString(Get(v, "name"), path \o <<"name">>, "Activity name is required")
       \o ZString(Get(v, "description"), path \o <<"description">>,
                  "Activity description is required")

\* An element of participants.
ZParticipant(v, path) ==
  IF v.t # "object" THEN TypeIssue(v, "object", path)
  ELSE ZString(Get(v, "name"), path \o <<"name">>,
               "Participant name is required")

\* The element schema of the array found at `path`.
ZElement(v, path, kind) ==
  CASE kind = "stats" -> ZStat(v, path)
    [] kind = "coordinates" -> ZTuple2(v, path)
    [] kind = "waypoints" -> ZWaypoint(v, path)
    [] kind = "gallery" -> ZGalleryItem(v, path)
    [] kind = "activities" -> ZActivity(v, path)
    [] kind = "participants" -> ZParticipant(v, path)

\* z.array(element).min(min, message): the length issue first, then the
\* issues of the elements by ascending index.
ZArray(v, path, kind, min, message) ==
  IF v.t # "array" THEN TypeIssue(v, "array", path)
  ELSE (IF Len(v.a) < min THEN <<Issue(path, message)>> ELSE <<>>)
       \o Flatten([i \in 1..Len(v.a) |->
                     ZElement(v.a[i], path \o <<ToString(i - 1)>>, kind)])

\* The route object.
ZRoute(v, path) ==
  IF v.t # "object" THEN TypeIssue(v, "object", path)
  ELSE ZArray(Get(v, "coordinates"), path \o <<"coordinates">>, "coordinates",
              2, "Route must have at least 2 coordinates")
       \o ZArray(Get(v, "waypoints"), path \o <<"waypoints">>, "waypoints",
                 1, "Route must have at least 1 waypoint")

\* The issues tripSchema.parse raises a ZodError with (none: parse returns).
tripSchema(v) ==
  IF v.t # "object" THEN TypeIssue(v, "object", <<>>)
  ELSE ZString(Get(v, "title"), <<"title">>, "Title is required")
       \o ZDescription(Get(v, "description"), <<"description">>,
                       "Description must be at least 10 characters")
       \o ZDate(Get(v, "startDate"), <<"startDate">>)
       \o ZDate(Get(v, "endDate"), <<"endDate">>)
       \o ZStatus(Get(v, "status"), <<"status">>)
       \o ZString(Get(v, "headerImage"), <<"headerImage">>,
                  "Header image is required")
       \o ZArray(Get(v, "stats"), <<"stats">>, "stats", 0, "")
       \o ZRoute(Get(v, "route"), <<"route">>)
       \o ZArray(Get(v, "gallery"), <<"gallery">>, "gallery", 1,
                 "Gallery must have at least 1 image")
       \o ZArray(Get(v, "activities"), <<"activities">>, "activities", 0, "")
       \o ZArray(Get(v, "participants"), <<"participants">>, "participants",
                 0, "")

\* err.path.join('.')
RECURSIVE JoinDot(_)
JoinDot(path) ==
  IF path = <<>> THEN <<>>
  ELSE IF Len(path) = 1 THEN path
  ELSE <<Head(path), ".">> \o JoinDot(Tail(path))

\* `${err.path.join('.')}: ${err.message}`: a message of the result is the
\* sequence of its pieces of text.
SchemaError(issue) == JoinDot(issue.path) \o <<": ", issue.message>>

----------------------------------------------------------------------------
(* validateTripData.  Each block of business rules yields what it appends  *)
(* to result.errors and result.warnings, whether it leaves result.isValid  *)
(* untouched (valid) and whether it raises a TypeError (threw).            *)

Findings(errors, warnings, valid) ==
  [errors |-> errors, warnings |-> warnings, valid |-> valid, threw |-> FALSE]

Nothing == Findings(<<>>, <<>>, TRUE)

Raise == [errors |-> <<>>, warnings |-> <<>>, valid |-> TRUE, threw |-> TRUE]

\* The findings of the elements of a forEach, in order; an exception in a
\* callback leaves the loop.
Gather(fs) ==
  IF \E i \in DOMAIN fs : fs[i].threw THEN Raise
  ELSE Findings(Flatten([i \in DOMAIN fs |-> fs[i].errors]),
                Flatten([i \in DOMAIN fs |-> fs[i].warnings]),
                \A i \in DOMAIN fs : fs[i].valid)

MsPerDay == 1000 * 60 * 60 * 24

\* Math.floor for Math.ceil.
FloorDiv(a, b) == a \div b

\* Math.ceil(a / b) for b > 0.
CeilDiv(a, b) == -((-a) \div b)

DURATION == <<"d", "u", "r", "a", "t", "i", "o", "n">>

DAYS == <<"d", "a", "y", "s">>

\* stat.id === 'duration' || stat.id === 'days'
IsDurationStat(stat) == Get(stat, "id") \in {Str(DURATION), Str(DAYS)}

\* The index of the element stats.find returns (0: none), and whether the
\* callback raised on a null or undefined element before finding one.
RECURSIVE FindDuration(_, _)
FindDuration(a, i) ==
  IF i > Len(a) THEN [index |-> 0, threw |-> FALSE]
  ELSE IF IsNullish(a[i]) THEN [index |-> 0, threw |-> TRUE]
  ELSE IF IsDurationStat(a[i]) THEN [index |-> i, threw |-> FALSE]
  ELSE FindDuration(a, i + 1)

\* daysDiff and the comparison with the duration stat (lines 87-94).
DurationRule(start, end, stats) ==
  IF ~(Truthy(stats) /\ stats.t = "array") THEN Nothing
  ELSE LET found == FindDuration(stats.a, 1)
           value == Get(stats.a[found.index], "value")
           daysDiff == CeilDiv(end.ms - start.ms, MsPerDay) + 1
           delta == Whole(daysDiff) - value.n
       IN IF found.threw THEN Raise
          ELSE IF found.index = 0 THEN Nothing
          ELSE IF start.t = "date" /\ end.t = "date" /\ value.t = "number"
                  /\ (IF delta < 0 THEN -delta ELSE delta) > Whole(1)
          THEN Findings(<<>>,
                        << <<"stats duration (", NumToString(value.n),
                             ") doesn't match calculated days (",
                             ToString(daysDiff), ")">> >>,
                        TRUE)
          ELSE Nothing

\* OrderRule without `result.isValid = false`.
OrderRuleKeepsValid(start, end) ==
  IF JsGreater(start, end)
  THEN Findings(<< <<"startDate must be before endDate">> >>, <<>>, TRUE)
  ELSE Nothing

\* OrderRule with >= for >.
OrderRuleNotStrict(start, end) ==
  IF JsGreater(start, end) \/ (HasNumber(start) /\ start = end)
  THEN Findings(<< <<"startDate must be before endDate">> >>, <<>>, FALSE)
  ELSE Nothing

\* startDate > endDate (lines 82-85).
OrderRule(start, end) ==
  IF JsGreater(start, end)
  THEN Findings(<< <<"startDate must be before endDate">> >>, <<>>, FALSE)
  ELSE Nothing

\* Lines 81-95.
DateRules(td) ==
  LET start == Get(td, "startDate")
      end == Get(td, "endDate")
  IN IF Truthy(td) /\ Truthy(start) /\ Truthy(end)
     THEN Gather(<<OrderRule(start, end),
                   DurationRule(start, end, Get(td, "stats"))>>)
     ELSE Nothing

StatusWarning(status, which, when) ==
  <<"Trip marked as \"", status, "\" but ", which, " date is in the ", when>>

\* Lines 98-106; clock is the value of new Date().
CurrentRule(td, clock) ==
  IF Truthy(td) /\ Get(td, "status") = Str(CURRENT)
  THEN Findings(<<>>,
         (IF JsGreater(Get(td, "startDate"), clock)
          THEN <<StatusWarning("current", "start", "future")>> ELSE <<>>)
         \o (IF JsLess(Get(td, "endDate"), clock)
             THEN <<StatusWarning("current", "end", "past")>> ELSE <<>>),
         TRUE)
  ELSE Nothing

\* CompletedRule reporting the mismatch as an error.
CompletedRuleAsError(td, clock) ==
  IF Truthy(td) /\ Get(td, "status") = Str(COMPLETED)
     /\ JsGreater(Get(td, "endDate"), clock)
  THEN Findings(<<StatusWarning("completed", "end", "future")>>, <<>>, FALSE)
  ELSE Nothing

\* Lines 108-110.
CompletedRule(td, clock) ==
  IF Truthy(td) /\ Get(td, "status") = Str(COMPLETED)
     /\ JsGreater(Get(td, "endDate"), clock)
  THEN Findings(<<>>, <<StatusWarning("completed", "end", "future")>>, TRUE)
  ELSE Nothing

\* PlannedRule with its warning counted against validity.
PlannedRuleInvalidates(td, clock) ==
  IF Truthy(td) /\ Get(td, "status") = Str(PLANNED)
     /\ JsLess(Get(td, "startDate"), clock)
  THEN Findings(<<>>, <<StatusWarning("planned", "start", "past")>>, FALSE)
  ELSE Nothing

\* Lines 112-114.
PlannedRule(td, clock) ==
  IF Truthy(td) /\ Get(td, "status") = Str(PLANNED)
     /\ JsLess(Get(td, "startDate"), clock)
  THEN Findings(<<>>, <<StatusWarning("planned", "start", "past")>>, TRUE)
  ELSE Nothing

SLASH == <<"/">>

ShouldStart == " should start with \"/\" for absolute path"

\* Line 117-119: startsWith is a method of strings only.
HeaderImageRule(td) ==
  LET image == Get(td, "headerImage")
  IN IF ~(Truthy(td) /\ Truthy(image)) THEN Nothing
     ELSE IF image.t # "string" THEN Raise
     ELSE IF ~StartsWith(image.s, SLASH)
     THEN Findings(<<>>, << <<"headerImage", ShouldStart>> >>, TRUE)
     ELSE Nothing

\* GalleryItemRule naming the entry by its position counted from 1.
GalleryItemRuleOneBased(item, index) ==
  IF IsNullish(item) THEN Raise
  ELSE LET image == Get(item, "image")
       IN IF ~Truthy(image) THEN Nothing
          ELSE IF image.t # "string" THEN Raise
          ELSE IF ~StartsWith(image.s, SLASH)
          THEN Findings(<<>>,
                 << <<"gallery", "[", ToString(index + 1), "]", ".", "image",
                      ShouldStart>> >>, TRUE)
          ELSE Nothing

\* The callback of gallery.forEach (lines 123-125); index counts from 0.
GalleryItemRule(item, index) ==
  IF IsNullish(item) THEN Raise
  ELSE LET image == Get(item, "image")
       IN IF ~Truthy(image) THEN Nothing
          ELSE IF image.t # "string" THEN Raise
          ELSE IF ~StartsWith(image.s, SLASH)
          THEN Findings(<<>>,
                 << <<"gallery", "[", ToString(index), "]", ".", "image",
                      ShouldStart>> >>, TRUE)
          ELSE Nothing

\* Lines 121-127: forEach is a method of arrays only.
GalleryRule(td) ==
  LET gallery == Get(td, "gallery")
  IN IF ~(Truthy(td) /\ Truthy(gallery)) THEN Nothing
     ELSE IF gallery.t # "array" THEN Raise
     ELSE Gather([i \in 1..Len(gallery.a) |->
                    GalleryItemRule(gallery.a[i], i - 1)])

LatMin == -90

LatMax == 90

LngMin == -180

LngMax == 180

RangeError(where, index, what, value, range) ==
  <<where, "[", ToString(index), "]", " ", what, " ", NumToString(value),
    " is out of range ", range>>

\* The two range checks of a pair (lines 133-140 and 147-154).
RangeChecks(lng, lat, where, index) ==
  LET badLat == JsLess(lat, Num(Whole(LatMin))) \/ JsGreater(lat, Num(Whole(LatMax)))
      badLng == JsLess(lng, Num(Whole(LngMin))) \/ JsGreater(lng, Num(Whole(LngMax)))
  IN Findings(
       (IF badLat
        THEN <<RangeError(where, index, "latitude", lat.n, "(-90 to 90)")>>
        ELSE <<>>)
       \o (IF badLng
           THEN <<RangeError(where, index, "longitude", lng.n, "(-180 to 180)")>>
           ELSE <<>>),
       <<>>,
       ~(badLat \/ badLng))

\* PairRule reading a pair as [lat, lng].
PairRuleLatFirst(coord, where, index) ==
  IF coord.t # "array" THEN Raise
  ELSE RangeChecks(IF Len(coord.a) >= 2 THEN coord.a[2] ELSE Undef,
                   IF Len(coord.a) >= 1 THEN coord.a[1] ELSE Undef,
                   where, index)

\* const [lng, lat] = coord (lines 132 and 146); a missing element is
\* undefined, and what is not iterable (among the values of the model, what
\* is not an array) raises.
PairRule(coord, where, index) ==
  IF coord.t # "array" THEN Raise
  ELSE RangeChecks(IF Len(coord.a) >= 1 THEN coord.a[1] ELSE Undef,
                   IF Len(coord.a) >= 2 THEN coord.a[2] ELSE Undef,
                   where, index)

\* tripData.route?.coordinates and tripData.route?.waypoints
RouteGet(td, k) ==
  LET route == Get(td, "route")
  IN IF IsNullish(route) THEN Undef ELSE Get(route, k)

\* Lines 130-142.
CoordinatesRule(td) ==
  LET coordinates == RouteGet(td, "coordinates")
  IN IF ~(Truthy(td) /\ Truthy(coordinates)) THEN Nothing
     ELSE IF coordinates.t # "array" THEN Raise
     ELSE Gather([i \in 1..Len(coordinates.a) |->
                    PairRule(coordinates.a[i], "route.coordinates", i - 1)])

\* The callback of waypoints.forEach (lines 146-154).
WaypointRule(waypoint, index) ==
  IF IsNullish(waypoint) THEN Raise
  ELSE IF IsNullish(Get(waypoint, "coordinates")) THEN Raise
  ELSE PairRule(Get(waypoint, "coordinates"), "route.waypoints", index)

\* Lines 144-156.
WaypointsRule(td) ==
  LET waypoints == RouteGet(td, "waypoints")
  IN IF ~(Truthy(td) /\ Truthy(waypoints)) THEN Nothing
     ELSE IF waypoints.t # "array" THEN Raise
     ELSE Gather([i \in 1..Len(waypoints.a) |->
                    WaypointRule(waypoints.a[i], i - 1)])

\* The try block (lines 66-78): a ZodError sets isValid to false and replaces
\* errors by the formatted issues.
SchemaFindings(td) ==
  LET issues == tripSchema(td)
  IN Findings([i \in 1..Len(issues) |-> SchemaError(issues[i])], <<>>,
              issues = <<>>)

Threw == [kind |-> "threw"]

Returned(value) == [kind |-> "returned", value |-> value]

\* validateTripData checking the waypoints before the coordinates.
validateTripDataWaypointsFirst(td, id, clock) ==
  LET all == Gather(<<SchemaFindings(td), DateRules(td), CurrentRule(td, clock),
                      CompletedRule(td, clock), PlannedRule(td, clock),
                      HeaderImageRule(td), GalleryRule(td), WaypointsRule(td),
                      CoordinatesRule(td)>>)
  IN IF all.threw THEN Threw
     ELSE Returned([tripId |-> id, isValid |-> all.valid,
                    errors |-> all.errors, warnings |-> all.warnings])

\* validateTripData(tripData, tripId) run when new Date() is clock: the value
\* it returns, or the TypeError it lets escape.
validateTripData(td, id, clock) ==
  LET all == Gather(<<SchemaFindings(td), DateRules(td), CurrentRule(td, clock),
                      CompletedRule(td, clock), PlannedRule(td, clock),
                      HeaderImageRule(td), GalleryRule(td), CoordinatesRule(td),
                      WaypointsRule(td)>>)
  IN IF all.threw THEN Threw
     ELSE Returned([tripId |-> id, isValid |-> all.valid,
                    errors |-> all.errors, warnings |-> all.warnings])

COLLECTION == <<"c", "o", "l", "l", "e", "c", "t", "i", "o", "n">>

\* The catch block of validateAllTripsFromData (lines 167-174); `${error}` is
\* the text of the TypeError caught.
CollectionFailure ==
  <<[tripId |-> Str(COLLECTION), isValid |-> FALSE,
     errors |-> << <<"Failed to process trips data: ", "TypeError">> >>,
     warnings |-> <<>>]>>

\* MapTrip reading trip?.data and trip?.id.
MapTripOptional(trip, clock) ==
  validateTripData(IF IsNullish(trip) THEN Undef ELSE Get(trip, "data"),
                   IF IsNullish(trip) THEN Undef ELSE Get(trip, "id"), clock)

\* The callback of trips.map (line 166): trip.data and trip.id raise on a null
\* or undefined element.
MapTrip(trip, clock) ==
  IF IsNullish(trip) THEN Threw
  ELSE validateTripData(Get(trip, "data"), Get(trip, "id"), clock)

\* validateAllTripsFromData(trips): map is a method of arrays only, and every
\* exception raised inside the try block is caught.
validateAllTripsFromData(list, clock) ==
  IF list.t # "array" THEN CollectionFailure
  ELSE LET outs == [i \in 1..Len(list.a) |-> MapTrip(list.a[i], clock)]
       IN IF \E i \in DOMAIN outs : outs[i].kind = "threw"
          THEN CollectionFailure
          ELSE [i \in DOMAIN outs |-> outs[i].value]

----------------------------------------------------------------------------
(* validateContentFormat, on the raw text of a content file.               *)

\* The characters trim() removes and \s matches, among those of the model.
IsSpace(c) == c \in {" ", "\t", "\n", "\r"}

RECURSIVE TrimStart(_)
TrimStart(s) ==
  IF s # <<>> /\ IsSpace(Head(s)) THEN TrimStart(Tail(s)) ELSE s

RECURSIVE TrimEnd(_)
TrimEnd(s) ==
  IF s # <<>> /\ IsSpace(s[Len(s)]) THEN TrimEnd(SubSeq(s, 1, Len(s) - 1))
  ELSE s

\* s.trim()
Trim(s) == TrimEnd(TrimStart(s))

\* IndexOf without its starting position, as s.indexOf(p) searches.
IndexOfFromStart(s, p, from) ==
  LET hits == {k \in 0..(Len(s) - Len(p)) : SubSeq(s, k + 1, k + Len(p)) = p}
  IN IF hits = {} THEN -1 ELSE CHOOSE k \in hits : \A j \in hits : k <= j

\* s.indexOf(p, from): the first position, counted from 0 and not before
\* from, at which p occurs in s; -1 when there is none.
IndexOf(s, p, from) ==
  LET hits == {k \in from..(Len(s) - Len(p)) : SubSeq(s, k + 1, k + Len(p)) = p}
  IN IF hits = {} THEN -1 ELSE CHOOSE k \in hits : \A j \in hits : k <= j

\* s.includes(p)
Includes(s, p) == IndexOf(s, p, 0) # -1

\* s.slice(from, to) and s.slice(from), for 0 <= from <= to <= s.length.
Slice(s, from, to) == SubSeq(s, from + 1, to)

SliceFrom(s, from) == SubSeq(s, from + 1, Len(s))

\* s.split('\n'): the pieces between the line breaks, at least one.
RECURSIVE SplitLines(_)
SplitLines(s) ==
  LET at == IndexOf(s, <<"\n">>, 0)
  IN IF at = -1 THEN <<s>>
     ELSE <<Slice(s, 0, at)>> \o SplitLines(SliceFrom(s, at + 1))

DELIMITER == <<"-", "-", "-">>

\* YamlLineWarning without the test for a leading "-".
YamlLineWarningListEntries(text, i) ==
  LET line == Trim(text)
  IN IF line # <<>> /\ ~StartsWith(line, <<"#">>) /\ ~Includes(line, <<":">>)
     THEN << <<"Line ", ToString(i + 2), ": Possible YAML formatting issue">> >>
     ELSE <<>>

\* The loop body of lines 208-213 for lines[i], i counted from 0.
YamlLineWarning(text, i) ==
  LET line == Trim(text)
  IN IF line # <<>> /\ ~StartsWith(line, <<"#">>) /\ ~Includes(line, <<":">>)
        /\ ~StartsWith(line, <<"-">>)
     THEN << <<"Line ", ToString(i + 2), ": Possible YAML formatting issue">> >>
     ELSE <<>>

\* HasMainHeading for /^#/, which asks for no whitespace after the "#".
HasMainHeadingNoSpace(s) == Len(s) >= 1 /\ s[1] = "#"

\* /^#\s+/.test(s)
HasMainHeading(s) == Len(s) >= 2 /\ s[1] = "#" /\ IsSpace(s[2])

ShortLimit == 100

\* Lines 218-232: the three checks of the text after the closing delimiter.
BodyWarnings(markdownContent) ==
  (IF Len(Trim(markdownContent)) = 0
   THEN << <<"No markdown content found after frontmatter">> >> ELSE <<>>)
  \o (IF ~HasMainHeading(markdownContent)
      THEN << <<"Consider adding a main heading (# Title) to the markdown content">> >>
      ELSE <<>>)
  \o (IF Len(Trim(markdownContent)) < ShortLimit
      THEN << <<"Markdown content is very short, consider adding more details">> >>
      ELSE <<>>)

\* validateContentFormat with a missing body reported as an error.
validateContentFormatStrict(text) ==
  IF ~StartsWith(text, DELIMITER)
  THEN [isValid |-> FALSE,
        errors |-> << <<"Content must start with frontmatter (---)">> >>,
        warnings |-> <<>>]
  ELSE LET frontmatterEnd == IndexOf(text, DELIMITER, 3)
           frontmatter == Slice(text, 3, frontmatterEnd)
           markdownContent == SliceFrom(text, frontmatterEnd + 3)
           lines == SplitLines(frontmatter)
           empty == Len(Trim(markdownContent)) = 0
       IN IF frontmatterEnd = -1
          THEN [isValid |-> FALSE,
                errors |-> << <<"Frontmatter must be properly closed with ---">> >>,
                warnings |-> <<>>]
          ELSE [isValid |-> ~empty,
                errors |->
                  IF empty
                  THEN << <<"No markdown content found after frontmatter">> >>
                  ELSE <<>>,
                warnings |->
                  Flatten([i \in 1..Len(lines) |-> YamlLineWarning(lines[i], i - 1)])
                  \o BodyWarnings(markdownContent)]

\* validateContentFormat(content, tripId) on a string (tripId is not read);
\* split and trim raise nothing, so the catch block of line 214 is never
\* entered.
validateContentFormat(text) ==
  IF ~StartsWith(text, DELIMITER)
  THEN [isValid |-> FALSE,
        errors |-> << <<"Content must start with frontmatter (---)">> >>,
        warnings |-> <<>>]
  ELSE LET frontmatterEnd == IndexOf(text, DELIMITER, 3)
           frontmatter == Slice(text, 3, frontmatterEnd)
           markdownContent == SliceFrom(text, frontmatterEnd + 3)
           lines == SplitLines(frontmatter)
       IN IF frontmatterEnd = -1
          THEN [isValid |-> FALSE,
                errors |-> << <<"Frontmatter must be properly closed with ---">> >>,
                warnings |-> <<>>]
          ELSE [isValid |-> TRUE,
                errors |-> <<>>,
                warnings |->
                  Flatten([i \in 1..Len(lines) |-> YamlLineWarning(lines[i], i - 1)])
                  \o BodyWarnings(markdownContent)]

----------------------------------------------------------------------------
(* generateValidationReport.  The report is the sequence of its lines (each  *)
(* ended by a line break in the text), a line the sequence of its pieces.  *)

\* The three pictographs of the report, by name: U+274C (cross mark), U+26A0
\* U+FE0F (warning sign) and U+2705 (check mark).
CROSS == ":cross:"

WARNING == ":warning:"

CHECK == ":check:"

\* ValidTrips taking the results without warnings.
ValidTripsUnwarned(rs) == SelectSeq(rs, LAMBDA r : Len(r.warnings) = 0)

\* results.filter(r => r.isValid)
ValidTrips(rs) == SelectSeq(rs, LAMBDA r : r.isValid)

\* results.filter(r => !r.isValid)
InvalidTrips(rs) == SelectSeq(rs, LAMBDA r : ~r.isValid)

\* results.filter(r => r.warnings.length > 0)
TripsWithWarnings(rs) == SelectSeq(rs, LAMBDA r : Len(r.warnings) > 0)

\* Lines 245-250.
SummaryLines(rs) ==
  << <<"# Trip Content Validation Report">>, <<>>,
     <<"**Summary:**">>,
     <<"- Total trips: ", ToString(Len(rs))>>,
     <<"- Valid trips: ", ToString(Len(ValidTrips(rs)))>>,
     <<"- Invalid trips: ", ToString(Len(InvalidTrips(rs)))>>,
     <<"- Trips with warnings: ", ToString(Len(TripsWithWarnings(rs)))>>,
     <<>> >>

\* `### ${trip.tripId}`
TripHeading(trip) == <<"### ", Text(trip.tripId.s)>>

ErrorLines(trip) ==
  [i \in 1..Len(trip.errors) |-> <<"- ", CROSS, " ">> \o trip.errors[i]]

WarningLines(trip) ==
  [i \in 1..Len(trip.warnings) |-> <<"- ", WARNING, " ">> \o trip.warnings[i]]

\* The callback of invalidTrips.forEach (lines 255-264).
InvalidTripLines(trip) ==
  <<TripHeading(trip)>> \o ErrorLines(trip) \o WarningLines(trip) \o << <<>> >>

\* The callback of the forEach of line 270.
WarnedTripLines(trip) ==
  <<TripHeading(trip)>> \o WarningLines(trip) \o << <<>> >>

InvalidHeader == <<"## ", CROSS, " Invalid Trips">>

WarningsHeader == <<"## ", WARNING, " Trips with Warnings">>

AllClearHeader == <<"## ", CHECK, " All trips are valid!">>

\* Lines 252-266.
InvalidSection(rs) ==
  LET invalidTrips == InvalidTrips(rs)
  IN IF Len(invalidTrips) > 0
     THEN <<InvalidHeader, <<>> >>
          \o Flatten([i \in 1..Len(invalidTrips) |->
                        InvalidTripLines(invalidTrips[i])])
     ELSE <<>>

\* Lines 268-277: the header is written when any result has warnings, the
\* entries for the valid ones among them.
WarningsSection(rs) ==
  LET warned == ValidTrips(TripsWithWarnings(rs))
  IN IF Len(TripsWithWarnings(rs)) > 0
     THEN <<WarningsHeader, <<>> >>
          \o Flatten([i \in 1..Len(warned) |-> WarnedTripLines(warned[i])])
     ELSE <<>>

\* AllClearSection without the test of tripsWithWarnings.
AllClearSectionWarned(rs) ==
  IF Len(ValidTrips(rs)) > 0 /\ Len(InvalidTrips(rs)) = 0
  THEN <<AllClearHeader, <<>>,
         <<"All ", ToString(Len(ValidTrips(rs))),
           " trips passed validation without errors or warnings.">> >>
  ELSE <<>>

\* Lines 279-282.
AllClearSection(rs) ==
  IF Len(ValidTrips(rs)) > 0 /\ Len(InvalidTrips(rs)) = 0
     /\ Len(TripsWithWarnings(rs)) = 0
  THEN <<AllClearHeader, <<>>,
         <<"All ", ToString(Len(ValidTrips(rs))),
           " trips passed validation without errors or warnings.">> >>
  ELSE <<>>

\* generateValidationReport(results)
generateValidationReport(rs) ==
  SummaryLines(rs) \o InvalidSection(rs) \o WarningsSection(rs)
    \o AllClearSection(rs)

----------------------------------------------------------------------------
(* The astro:build:start hook of the contentValidation integration.  The   *)
(* options are the values the destructuring of line 30 leaves (defaults    *)
(* filled in); the log is the sequence of the calls made on the logger.    *)

\* More pictographs, by name: U+1F50D, U+1F4CA and U+1F4C4.
MAG == ":mag:"

CHART == ":bar_chart:"

PAGE == ":page_facing_up:"

Log(level, text) == [level |-> level, text |-> text]

\* Lines 52-59.
SummaryLog(rs, showWarnings) ==
  <<Log("info", <<CHART, " Validation Summary:">>),
    Log("info", <<"   ", CHECK, " Valid: ", ToString(Len(ValidTrips(rs)))>>)>>
  \o (IF Len(InvalidTrips(rs)) > 0
      THEN <<Log("error", <<"   ", CROSS, " Invalid: ",
                            ToString(Len(InvalidTrips(rs)))>>)>>
      ELSE <<>>)
  \o (IF Len(TripsWithWarnings(rs)) > 0 /\ showWarnings
      THEN <<Log("warn", <<"   ", WARNING, "  Warnings: ",
                           ToString(Len(TripsWithWarnings(rs)))>>)>>
      ELSE <<>>)

\* The callback of invalidTrips.forEach (lines 65-68).
TripErrorsLog(trip) ==
  <<Log("error", <<"   ", Text(trip.tripId.s), ":">>)>>
  \o [i \in 1..Len(trip.errors) |-> Log("error", <<"     - ">> \o trip.errors[i])]

\* Lines 62-70.
ErrorsLog(rs) ==
  LET invalidTrips == InvalidTrips(rs)
  IN IF Len(invalidTrips) > 0
     THEN <<Log("error", <<CROSS, " Content validation errors found:">>)>>
          \o Flatten([i \in 1..Len(invalidTrips) |->
                        TripErrorsLog(invalidTrips[i])])
     ELSE <<>>

\* The callback of tripsWithWarnings.forEach (lines 76-81).
TripWarningsLog(trip) ==
  IF Len(trip.warnings) > 0
  THEN <<Log("warn", <<"   ", Text(trip.tripId.s), ":">>)>>
       \o [i \in 1..Len(trip.warnings) |->
             Log("warn", <<"     - ">> \o trip.warnings[i])]
  ELSE <<>>

\* Lines 73-83.
WarningsLog(rs, showWarnings) ==
  LET tripsWithWarnings == TripsWithWarnings(rs)
  IN IF showWarnings /\ Len(tripsWithWarnings) > 0
     THEN <<Log("warn", <<WARNING, "  Content validation warnings:">>)>>
          \o Flatten([i \in 1..Len(tripsWithWarnings) |->
                        TripWarningsLog(tripsWithWarnings[i])])
     ELSE <<>>

\* GateFails asking for more than one invalid result.
GateFailsOnSeveral(failOnError, rs) == failOnError /\ Len(InvalidTrips(rs)) > 1

\* failOnError && invalidTrips.length > 0 (line 95)
GateFails(failOnError, rs) == failOnError /\ Len(InvalidTrips(rs)) > 0

\* An exception on its way to the catch block of line 103, and the Error
\* the hook rejects with.
Caught(error) == [kind |-> "caught", error |-> error]

Rejected(message) == [kind |-> "threw", message |-> message]

ValidationFailed(rs) ==
  <<"Content validation failed with ", ToString(Len(InvalidTrips(rs))),
    " invalid trips. Fix the errors above and try again.">>

NotCompleted == <<"Content validation could not be completed">>

----------------------------------------------------------------------------
(* The command line script (src/unnamed/part_000): its own validator of a  *)
(* trip record, tripSchema.validate, run on the value parseYAML gives for  *)
(* the metadata of a file.                                                 *)

\* typeof v
TypeOf(v) ==
  IF v.t \in {"null", "array", "object", "date", "invalidDate"} THEN "object"
  ELSE v.t

\* new Date(v) as the comparisons see it: a Date is copied, null gives the
\* epoch and a number an instant counted from it, which compare as null and
\* the number do; undefined and the strings, arrays and objects of the model
\* give an invalid Date.
NewDate(v) ==
  IF v.t \in {"date", "invalidDate", "null", "number"} THEN v ELSE InvalidDate

\* !v || typeof v !== 'string' (lines 24, 27 and 39)
StringRequired(v, name) ==
  IF ~Truthy(v) \/ TypeOf(v) # "string"
  THEN << <<name, " is required and must be a string">> >>
  ELSE <<>>

\* !v (lines 30 and 33)
Required(v, name) ==
  IF ~Truthy(v) THEN << <<name, " is required">> >> ELSE <<>>

requiredStats == <<"kilometers", "activities", "peopleMet", "cities", "days">>

\* The callback of requiredStats.forEach (lines 48-52).
StatError(stats, stat) ==
  LET v == Get(stats, stat)
  IN IF TypeOf(v) # "number" \/ v.n < 0
     THEN << <<"stats.", stat, " must be a positive number">> >>
     ELSE <<>>

\* Lines 44-53.
StatsErrors(stats) ==
  IF ~Truthy(stats) \/ TypeOf(stats) # "object"
  THEN << <<"stats object is required">> >>
  ELSE Flatten([i \in 1..Len(requiredStats) |-> StatError(stats, requiredStats[i])])

\* !Array.isArray(v) || v.length < least
ArrayError(v, least, message) ==
  IF v.t # "array" \/ Len(v.a) < least THEN << <<message>> >> ELSE <<>>

\* Lines 56-65.
RouteErrors(route) ==
  IF ~Truthy(route) \/ TypeOf(route) # "object"
  THEN << <<"route object is required">> >>
  ELSE ArrayError(Get(route, "coordinates"), 2,
         "route.coordinates must be an array with at least 2 coordinate pairs")
       \o ArrayError(Get(route, "waypoints"), 1,
            "route.waypoints must be an array with at least 1 waypoint")

\* `${data.stats.days}` for the values of the model.
DaysText(days) ==
  IF days.t = "number" THEN NumToString(days.n) ELSE days.t

\* Lines 83-96: the ordering error and the warning about stats.days (a
\* difference with an invalid Date, or with a days that is no number, is
\* NaN, and null counts as 0).
DateLogic(data) ==
  LET start == NewDate(Get(data, "startDate"))
      end == NewDate(Get(data, "endDate"))
      stats == Get(data, "stats")
      days == Get(stats, "days")
      daysDiff == CeilDiv(end.ms - start.ms, MsPerDay) + 1
      delta == Whole(daysDiff) - NumberOf(days)
  IN IF ~(Truthy(Get(data, "startDate")) /\ Truthy(Get(data, "endDate")))
     THEN Nothing
     ELSE Findings(
            IF JsGreater(start, end)
            THEN << <<"startDate must be before endDate">> >> ELSE <<>>,
            IF /\ start.t = "date" /\ end.t = "date"
               /\ Truthy(stats)
               /\ days.t \in {"number", "null"}
               /\ (IF delta < 0 THEN -delta ELSE delta) > Whole(1)
            THEN << <<"stats.days (", DaysText(days),
                     ") doesn't match calculated days (", ToString(daysDiff),
                     ")">> >>
            ELSE <<>>,
            TRUE)

\* Lines 99-109.
CurrentWarnings(data, clock) ==
  IF Get(data, "status") # Str(CURRENT) THEN <<>>
  ELSE (IF JsGreater(NewDate(Get(data, "startDate")), clock)
        THEN << <<"Trip marked as \"current\" but start date is in the future">> >>
        ELSE <<>>)
       \o (IF JsLess(NewDate(Get(data, "endDate")), clock)
           THEN << <<"Trip marked as \"current\" but end date is in the past">> >>
           ELSE <<>>)

\* tripSchema.validate(data) of the script, run when new Date() is clock:
\* the errors and warnings it returns, or the TypeError of data.title when
\* data is null or undefined.
tripSchemaValidate(data, clock) ==
  IF IsNullish(data) THEN Threw
  ELSE Returned(
         [errors |->
            StringRequired(Get(data, "title"), "title")
            \o StringRequired(Get(data, "description"), "description")
            \o Required(Get(data, "startDate"), "startDate")
            \o Required(Get(data, "endDate"), "endDate")
            \o (IF Get(data, "status") \notin {Str(COMPLETED), Str(CURRENT), Str(PLANNED)}
                THEN << <<"status must be one of: completed, current, planned">> >>
                ELSE <<>>)
            \o StringRequired(Get(data, "headerImage"), "headerImage")
            \o StatsErrors(Get(data, "stats"))
            \o RouteErrors(Get(data, "route"))
            \o ArrayError(Get(data, "gallery"), 1,
                          "gallery must be an array with at least 1 image")
            \o ArrayError(Get(data, "activities"), 0, "activities must be an array")
            \o ArrayError(Get(data, "participants"), 0,
                          "participants must be an array")
            \o DateLogic(data).errors,
          warnings |-> DateLogic(data).warnings \o CurrentWarnings(data, clock)])

\* The outcome of the validation of a file of the script.
FileValidation(errors, warnings) == [errors |-> errors, warnings |-> warnings]

\* validateContentFormat(content, filename) of the script (lines 114-158).
\* A file carries its text and what parseYAML makes of its metadata: a value
\* or a YAMLParseError; the TypeError of tripSchema.validate(null) is caught
\* by the same block.
validateContentFormatOfFile(file, clock) ==
  LET text == file.content
      frontmatterEnd == IndexOf(text, DELIMITER, 3)
      markdownContent == SliceFrom(text, frontmatterEnd + 3)
      validation ==
        IF file.yaml.kind = "threw" THEN Threw
        ELSE tripSchemaValidate(file.yaml.value, clock)
  IN IF ~StartsWith(text, DELIMITER)
     THEN FileValidation(<< <<"Content must start with frontmatter (---)">> >>,
                         <<>>)
     ELSE IF frontmatterEnd = -1
     THEN FileValidation(<< <<"Frontmatter must be properly closed with ---">> >>,
                         <<>>)
     ELSE FileValidation(
            IF validation.kind = "threw"
            THEN << <<"YAML parsing error: ",
                     IF file.yaml.kind = "threw" THEN "YAMLParseError"
                     ELSE "TypeError">> >>
            ELSE validation.value.errors,
            (IF validation.kind = "threw" THEN <<>>
             ELSE validation.value.warnings)
            \o BodyWarnings(markdownContent))

\* The result of a file (lines 172-178): file.replace('.md', '') is the name
\* without its extension.
FileResult(file, clock) ==
  LET validation == validateContentFormatOfFile(file, clock)
  IN [tripId |-> Str(<<file.base>>),
      filename |-> file.base \o file.ext,
      isValid |-> Len(validation.errors) = 0,
      errors |-> validation.errors,
      warnings |-> validation.warnings]

\* The catch block of validateAllTripFiles (lines 180-187).
DirectoryFailure ==
  [tripId |-> Str(COLLECTION), filename |-> "N/A", isValid |-> FALSE,
   errors |-> << <<"Failed to read trips directory: ", "ENOENT">> >>,
   warnings |-> <<>>]

\* The loop of lines 167-179: the results of the files up to the first one
\* readFileSync cannot read, which ends the loop in the catch block.
RECURSIVE ValidateFiles(_, _)
ValidateFiles(files, clock) ==
  IF files = <<>> THEN <<>>
  ELSE IF ~Head(files).readable THEN <<DirectoryFailure>>
  ELSE <<FileResult(Head(files), clock)>> \o ValidateFiles(Tail(files), clock)

\* validateAllTripFiles() on a directory that readdirSync can list or not.
validateAllTripFiles(dir, clock) ==
  IF ~dir.readable THEN <<DirectoryFailure>>
  ELSE ValidateFiles(SelectSeq(dir.files, LAMBDA f : f.ext = ".md"), clock)

\* generateReport(results) of the script (lines 193-239): the report of
\* generateValidationReport with the time of its generation and with the
\* file name in the heading of a trip.
generateReport(rs, clock) ==
  LET Heading(trip) ==
        <<"### ", Text(trip.tripId.s), " (", trip.filename, ")">>
      invalidTrips == InvalidTrips(rs)
      warned == ValidTrips(TripsWithWarnings(rs))
  IN << <<"# Trip Content Validation Report">>, <<>>,
        <<"Generated: ", ToString(clock.ms)>>, <<>> >>
     \o SubSeq(SummaryLines(rs), 3, Len(SummaryLines(rs)))
     \o (IF Len(invalidTrips) > 0
         THEN <<InvalidHeader, <<>> >>
              \o Flatten([i \in 1..Len(invalidTrips) |->
                            <<Heading(invalidTrips[i])>>
                            \o ErrorLines(invalidTrips[i])
                            \o WarningLines(invalidTrips[i]) \o << <<>> >>])
         ELSE <<>>)
     \o (IF Len(TripsWithWarnings(rs)) > 0
         THEN <<WarningsHeader, <<>> >>
              \o Flatten([i \in 1..Len(warned) |->
                            <<Heading(warned[i])>> \o WarningLines(warned[i])
                            \o << <<>> >>])
         ELSE <<>>)
     \o AllClearSection(rs)

\* The options of main before the arguments are read (lines 244-248).
NoOptions == [output |-> Null, verbose |-> FALSE, exitOnError |-> FALSE]

\* The loop of lines 251-281 from args[i] on (i counted from 1): the options
\* and whether --help was met, which ends the process at once.  --output
\* takes the next argument as its value, undefined when there is none.
RECURSIVE ParseArgs(_, _, _)
ParseArgs(as, i, parsed) ==
  IF i > Len(as) THEN [options |-> parsed, help |-> FALSE]
  ELSE IF as[i] \in {"--output", "-o"}
  THEN ParseArgs(as, i + 2,
                 [parsed EXCEPT !.output = IF i + 1 <= Len(as)
                                           THEN Str(<<as[i + 1]>>) ELSE Undef])
  ELSE IF as[i] \in {"--verbose", "-v"}
  THEN ParseArgs(as, i + 1, [parsed EXCEPT !.verbose = TRUE])
  ELSE IF as[i] = "--exit-on-error"
  THEN ParseArgs(as, i + 1, [parsed EXCEPT !.exitOnError = TRUE])
  ELSE IF as[i] \in {"--help", "-h"}
  THEN [options |-> parsed, help |-> TRUE]
  ELSE ParseArgs(as, i + 1, parsed)

\* The process has ended with the given exit code: process.exit(code), or
\* the return of main (code 0).
Exit(code) == [kind |-> "exit", code |-> code]

\* The process has ended on the exception writeFileSync raised, which
\* nothing catches.
Uncaught == [kind |-> "uncaught"]

\* Lines 299-306.
SummaryOutput(rs) ==
  <<Log("log", <<"\n", CHART, " Validation Summary:">>),
    Log("log", <<"   ", CHECK, " Valid: ", ToString(Len(ValidTrips(rs)))>>),
    Log("log", <<"   ", CROSS, " Invalid: ", ToString(Len(InvalidTrips(rs)))>>),
    Log("log", <<"   ", WARNING, "  Warnings: ",
                 ToString(Len(TripsWithWarnings(rs)))>>)>>

\* Lines 308-318: the details of every result.
DetailedOutput(rs) ==
  <<Log("log", <<"\n", ":clipboard:", " Detailed Results:">>)>>
  \o Flatten([i \in 1..Len(rs) |->
       <<Log("log", <<"   ", IF rs[i].isValid THEN CHECK ELSE CROSS, " ",
                      Text(rs[i].tripId.s)>>)>>
       \o [k \in 1..Len(rs[i].errors) |->
             Log("log", <<"      ", CROSS, " ">> \o rs[i].errors[k])]
       \o [k \in 1..Len(rs[i].warnings) |->
             Log("log", <<"      ", WARNING, " ">> \o rs[i].warnings[k])]])

\* ExitsWithError not asking for the option.
ExitsWithErrorUnasked(opts, rs) == Len(InvalidTrips(rs)) > 0

\* options.exitOnError && invalidCount > 0 (line 320)
ExitsWithError(opts, rs) == opts.exitOnError /\ Len(InvalidTrips(rs)) > 0

----------------------------------------------------------------------------
(* Inputs.                                                                 *)

\* Bounds of the model.
MaxStats == 2

MaxCoords == 2

MaxWaypoints == 2

MaxGallery == 2

MaxBatch == 2

MaxMetaLines == 2

MaxReport == 3

MaxArgs == 3

MaxFiles == 2

HalfDay == MsPerDay \div 2

\* Time values of the dates of a record: 2024-01-01, noon of that day,
\* 2024-01-02 and 2024-01-15.
Times == {0, HalfDay, MsPerDay, 14 * MsPerDay}

\* Values of new Date(): before every date of a record, between two of them,
\* equal to one and after all of them.
Clocks == {DateV(-1), DateV(HalfDay + 1), DateV(MsPerDay), DateV(15 * MsPerDay)}

DateVals == {Undef, Null, InvalidDate} \cup {DateV(ms) : ms \in Times}

HIDDEN == <<"h", "i", "d", "d", "e", "n">>

StatusVals == {Undef, Str(COMPLETED), Str(CURRENT), Str(PLANNED), Str(HIDDEN)}

DISTANCE == <<"d", "i", "s", "t", "a", "n", "c", "e">>

LABEL == Str(<<"L">>)

ICON == Str(<<"i">>)

Stat(id, value) ==
  Obj([id |-> Str(id), value |-> Num(value), label |-> LABEL, icon |-> ICON])

\* Values of a stat: around the calculated days of the dates above, one of
\* them just beyond the tolerance of a 15 day trip.
StatValues == {Whole(14), Whole(15), Whole(16), Whole(16) + 1, Whole(20)}

StatElems ==
  {Null, Stat(DAYS, Whole(15)), Stat(DAYS, Whole(20)), Stat(DISTANCE, Whole(500))}
    \cup {Stat(DURATION, v) : v \in StatValues}

\* The stats of the tests (an object, not a list), no stats, and lists.
StatsVals ==
  {Undef, Obj([days |-> Num(Whole(15))])}
    \cup {Arr(a) : a \in SeqUpTo(StatElems, MaxStats)}

\* Components of a coordinate pair: the four edges and the values just
\* beyond them.
Components ==
  {Whole(LngMin) - 1, Whole(LngMin), Whole(LatMin) - 1, Whole(LatMin),
   Whole(LatMax), Whole(LatMax) + 1, Whole(LngMax), Whole(LngMax) + 1}

Pair(a, b) == Arr(<<Num(a), Num(b)>>)

Pairs == {Pair(a, b) : a \in Components, b \in Components}

\* The pairs of the longer lists: in range, latitude beyond, longitude beyond.
FewPairs ==
  {Pair(a, b) : a, b \in {Whole(LatMax), Whole(LatMax) + 1, Whole(LngMax) + 1}}

Waypoint(coordinates) ==
  Obj([name |-> Str(<<"W">>), coordinates |-> coordinates])

Route(coordinates, waypoints) ==
  Obj([coordinates |-> coordinates, waypoints |-> waypoints])

GalleryItem(image) == Obj([image |-> image])

BaseCoordinates == Arr(<<Pair(0, 0), Pair(Whole(1), Whole(1))>>)

BaseWaypoints == Arr(<<Waypoint(Pair(0, 0))>>)

\* A record that satisfies the schema and every business rule.
Base ==
  [title |-> Str(<<"T">>),
   description |-> Str(<<"d", "e", "s", "c", "r", "i", "p", "t", "i", "o">>),
   startDate |-> DateV(0),
   endDate |-> DateV(14 * MsPerDay),
   status |-> Str(COMPLETED),
   headerImage |-> Str(<<"/", "h">>),
   stats |-> Arr(<<Stat(DISTANCE, Whole(500))>>),
   route |-> Route(BaseCoordinates, BaseWaypoints),
   gallery |-> Arr(<<GalleryItem(Str(<<"/", "g">>))>>),
   activities |-> Arr(<<>>),
   participants |-> Arr(<<>>)]

\* The empty object {}.
Empty == [k \in DOMAIN Base |-> Undef]

\* null, undefined, primitives, an array and {}.
NonRecords ==
  {Null, Undef, Str(<<>>), Str(<<"x">>), Num(0), Num(Whole(5)), Arr(<<>>),
   Obj(Empty)}

\* Records that differ in their dates and status.
DatedRecords ==
  {Obj([Base EXCEPT !.startDate = s, !.endDate = e, !.status = st]) :
     s \in DateVals, e \in DateVals, st \in StatusVals}

\* Records that differ in their dates and stats.
StatsRecords ==
  {Obj([Base EXCEPT !.startDate = DateV(s), !.endDate = DateV(e), !.stats = ss]) :
     s \in Times, e \in Times, ss \in StatsVals}

\* Records that differ in their route.
RouteRecords ==
  {Obj([Base EXCEPT !.route = Route(Arr(<<c>>), BaseWaypoints)]) : c \in Pairs}
  \cup {Obj([Base EXCEPT !.route = Route(BaseCoordinates, Arr(<<Waypoint(w)>>))]) :
          w \in Pairs}
  \cup {Obj([Base EXCEPT !.route = Route(Arr(<<c>>), Arr(<<Waypoint(w)>>))]) :
          c \in FewPairs, w \in FewPairs}
  \cup {Obj([Base EXCEPT !.route = Route(Arr(c), BaseWaypoints)]) :
          c \in SeqUpTo(FewPairs, MaxCoords)}
  \cup {Obj([Base EXCEPT !.route = Route(BaseCoordinates, Arr(w))]) :
          w \in SeqUpTo({Waypoint(p) : p \in FewPairs}, MaxWaypoints)}

HeaderImageShapes ==
  {Undef, Null, Str(<<>>), Str(<<"/", "h">>), Str(<<"h">>), Num(Whole(5))}

GalleryElems ==
  {Null, GalleryItem(Undef), GalleryItem(Str(<<"/", "g">>)),
   GalleryItem(Str(<<"g">>)), GalleryItem(Num(Whole(5)))}

GalleryShapes ==
  {Undef, Null, Str(<<"x">>), GalleryItem(Str(<<"/", "g">>))}
    \cup {Arr(a) : a \in SeqUpTo(GalleryElems, MaxGallery)}

CoordinatesShapes ==
  {Undef, Str(<<"x">>), BaseCoordinates, Arr(<<Null, Pair(0, 0)>>),
   Arr(<<Arr(<<Num(Whole(LngMax) + 1)>>), Num(Whole(5))>>)}

WaypointsShapes ==
  {Undef, Num(Whole(5)), Arr(<<Null>>), Arr(<<Waypoint(Undef)>>),
   Arr(<<Waypoint(Pair(0, Whole(LatMax) + 1))>>)}

RouteShapes ==
  {Undef, Null, Str(<<"x">>)}
    \cup {Route(c, w) : c \in CoordinatesShapes, w \in WaypointsShapes}

\* Records whose fields have the wrong type or shape.
ShapedRecords ==
  {Obj([Base EXCEPT !.headerImage = h, !.gallery = g, !.route = r]) :
     h \in HeaderImageShapes, g \in GalleryShapes, r \in RouteShapes}

\* Elements of stats the schema rejects, next to one it accepts: a negative
\* value, an empty id, an empty label and an empty icon.
InvalidStatElems ==
  {Stat(DISTANCE, Whole(500)), Stat(DISTANCE, -Whole(1)), Stat(<<>>, Whole(3)),
   Obj([id |-> Str(DISTANCE), value |-> Num(Whole(3)), label |-> Str(<<>>),
        icon |-> ICON]),
   Obj([id |-> Str(DISTANCE), value |-> Num(Whole(3)), label |-> LABEL,
        icon |-> Str(<<>>)])}

\* Records that differ in their title and in the entries of stats.
SchemaRecords ==
  {Obj([Base EXCEPT !.title = t, !.stats = Arr(a)]) :
     t \in {Str(<<"T">>), Str(<<>>)}, a \in SeqUpTo(InvalidStatElems, MaxStats)}

\* The pairs of the records with errors of several kinds: in range, and
\* both components beyond.
MixedPairs == {Pair(0, 0), Pair(Whole(LngMax) + 1, Whole(LatMax) + 1)}

\* Records with errors of several kinds at once: an empty title, a startDate
\* after the endDate, pairs out of range in both lists of the route.
MixedRecords ==
  {Obj([Base EXCEPT !.title = t, !.startDate = DateV(s),
                    !.route = Route(Arr(c), Arr(w))]) :
     t \in {Str(<<"T">>), Str(<<>>)}, s \in {0, 15 * MsPerDay},
     c \in SeqUpTo(MixedPairs, MaxCoords),
     w \in SeqUpTo({Waypoint(p) : p \in MixedPairs}, MaxWaypoints)}

\* The stats of the script and of the tests: an object of five numbers.
StatsObject(kilometers, days) ==
  Obj([kilometers |-> Num(kilometers), activities |-> Num(Whole(5)),
       peopleMet |-> Num(Whole(10)), cities |-> Num(Whole(3)),
       days |-> Num(days)])

\* The list of entries, the object of five numbers (its days right, wrong
\* and absent, a negative number in it), no stats and a string.
BothStats ==
  {Base.stats, StatsObject(Whole(500), Whole(15)), StatsObject(Whole(500), Whole(20)),
   StatsObject(-Whole(1), Whole(15)), Obj([kilometers |-> Num(Whole(500))]),
   Undef, Str(<<"x">>)}

\* Routes: accepted by both validators, a pair out of range, one pair only,
\* none.
BothRoutes ==
  {Base.route, Route(Arr(<<Pair(0, 0), Pair(0, Whole(LatMax) + 1)>>), BaseWaypoints),
   Route(Arr(<<Pair(0, 0)>>), BaseWaypoints), Undef}

\* The records given to both validators.
BothRecords ==
  {Null, Undef, Str(<<"x">>), Obj(Empty)}
    \cup {Obj([Base EXCEPT !.stats = ss, !.startDate = s, !.status = st,
                           !.description = d, !.route = r]) :
            ss \in BothStats, s \in {DateV(0), DateV(15 * MsPerDay), Undef, Null},
            st \in {Str(COMPLETED), Str(CURRENT), Str(HIDDEN)},
            d \in {Base.description, Str(<<"d">>)}, r \in BothRoutes}

Ids == {Str(<<"a">>), Str(<<"b">>)}

\* The data of the records of a batch: accepted, rejected by the schema,
\* rejected by a business rule, accepted with a warning, and malformed.
BatchData ==
  {Obj(Base), Null, Undef, Obj(Empty),
   Obj([Base EXCEPT !.startDate = DateV(MsPerDay), !.endDate = DateV(0)]),
   Obj([Base EXCEPT !.headerImage = Str(<<"h">>)]),
   Obj([Base EXCEPT !.gallery = Str(<<"x">>)])}

BatchElems ==
  {Null} \cup {Obj([id |-> id, data |-> d]) : id \in Ids, d \in BatchData}

BatchInputs ==
  {Null, Undef, Obj(Empty)} \cup {Arr(a) : a \in SeqUpTo(BatchElems, MaxBatch)}

\* n times the character c.
Rep(c, n) == [i \in 1..n |-> c]

\* The arguments of the command line: the options and a file name.
ArgTokens == {"-o", "--verbose", "--exit-on-error", "--help", "r.md"}

ArgLists == SeqUpTo(ArgTokens, MaxArgs)

\* A file of the trips directory.
File(base, ext, readable, text, yaml) ==
  [base |-> base, ext |-> ext, readable |-> readable, content |-> text,
   yaml |-> yaml]

\* A text with a closed metadata block and the given body.
Closing(body) == DELIMITER \o <<"\n">> \o DELIMITER \o body

LongBody == <<"#", " ">> \o Rep("a", ShortLimit - 2)

\* A record of the shape the script accepts.
ScriptRecord == Obj([Base EXCEPT !.stats = StatsObject(Whole(500), Whole(15))])

\* Files: valid, valid with warnings, with the stats of validateTripData,
\* with metadata that is no YAML, with empty metadata, with no metadata
\* block, with an open one, one that is no .md file and one that cannot be
\* read.
Files ==
  {File("a", ".md", TRUE, Closing(LongBody), Returned(ScriptRecord)),
   File("b", ".md", TRUE, Closing(<<>>), Returned(ScriptRecord)),
   File("c", ".md", TRUE, Closing(LongBody), Returned(Obj(Base))),
   File("d", ".md", TRUE, Closing(LongBody), Threw),
   File("e", ".md", TRUE, Closing(LongBody), Returned(Null)),
   File("f", ".md", TRUE, LongBody, Returned(ScriptRecord)),
   File("g", ".md", TRUE, DELIMITER \o <<"\n">>, Returned(ScriptRecord)),
   File("h", ".txt", TRUE, <<>>, Threw),
   File("i", ".md", FALSE, <<>>, Threw)}

Directory(readable, files) == [readable |-> readable, files |-> files]

Directories ==
  {Directory(FALSE, <<>>)}
    \cup {Directory(TRUE, fs) : fs \in SeqUpTo(Files, MaxFiles)}

\* A few of each, to go with all of the other.
FewDirectories ==
  {d \in Directories :
     d.files \in {<<>>} \cup {<<f>> : f \in {g \in Files : g.base \in {"a", "c"}}}}

FewArgLists ==
  {<<>>, <<"--exit-on-error">>, <<"--verbose">>} \cap ArgLists

\* What a file starts with: the delimiter, nothing, a broken delimiter, a
\* delimiter that is not the first text, a delimiter of four dashes.
Openings ==
  {DELIMITER, <<>>, <<"-", "-", " ", "-">>, <<"\n">> \o DELIMITER,
   DELIMITER \o <<"-">>}

\* Lines of a metadata block: a key and its value, a key whose value holds
\* the delimiter, a list entry, a comment, a blank line, free text.
MetaLines ==
  {<<"t", ":", " ", "a">>, <<"t", ":", " ", "a", "-", "-", "-", "b">>,
   <<"-", " ", "x">>, <<"#", "c">>, <<" ", " ">>, <<" ", "b", "a", "d">>}

RECURSIVE JoinLines(_)
JoinLines(ls) ==
  IF ls = <<>> THEN <<>> ELSE Head(ls) \o <<"\n">> \o JoinLines(Tail(ls))

MetaBlocks == {<<"\n">> \o JoinLines(ls) : ls \in SeqUpTo(MetaLines, MaxMetaLines)}

Closings == {DELIMITER, <<>>}

\* The text after the closing delimiter: none, blank, a heading with 100,
\* 99 and 3 characters of text, the same after a line break, no heading.
Bodies ==
  {<<>>, <<"\n", " ">>,
   <<"#", " ">> \o Rep("a", ShortLimit - 2),
   <<"#", " ">> \o Rep("a", ShortLimit - 3) \o <<"\n">>,
   <<"#", " ", "T">>,
   <<"\n", "#", " ">> \o Rep("a", ShortLimit - 2) \o <<"\n">>,
   <<"#", "T">> \o Rep("a", ShortLimit),
   Rep("a", ShortLimit - 1) \o <<" ", "b">>}

Contents ==
  {o \o m \o c \o b :
     o \in Openings, m \in MetaBlocks, c \in Closings, b \in Bodies}

\* The errors and warnings of the results of the report's tests.
TitleMissing == <<"Missing required field: title">>

StatusInvalid == <<"Invalid status value">>

DaysMismatch == <<"Days calculation mismatch">>

StatusInconsistent == <<"Status-date inconsistency">>

\* What a result holds besides its tripId: valid without and with warnings,
\* invalid without and with warnings.
ResultShapes ==
  {[isValid |-> TRUE, errors |-> <<>>, warnings |-> <<>>],
   [isValid |-> TRUE, errors |-> <<>>, warnings |-> <<DaysMismatch>>],
   [isValid |-> TRUE, errors |-> <<>>,
    warnings |-> <<DaysMismatch, StatusInconsistent>>],
   [isValid |-> FALSE, errors |-> <<TitleMissing>>, warnings |-> <<>>],
   [isValid |-> FALSE, errors |-> <<TitleMissing, StatusInvalid>>,
    warnings |-> <<DaysMismatch>>]}

\* The tripId of the i-th result of a list.
ReportId(i) == Str(<<"t", ToString(i)>>)

\* Lists of results: of the shapes above, and those validateAllTripsFromData
\* returns for the batches of the model.
ReportInputs ==
  {[i \in 1..Len(k) |->
      [tripId |-> ReportId(i), isValid |-> k[i].isValid,
       errors |-> k[i].errors, warnings |-> k[i].warnings]] :
     k \in SeqUpTo(ResultShapes, MaxReport)}
  \cup {validateAllTripsFromData(b, DateV(HalfDay + 1)) : b \in BatchInputs}

MaxHook == 2

\* What validateAllTrips resolves to in a run of the hook.
HookResults ==
  {[i \in 1..Len(k) |->
      [tripId |-> ReportId(i), isValid |-> k[i].isValid,
       errors |-> k[i].errors, warnings |-> k[i].warnings]] :
     k \in SeqUpTo(ResultShapes, MaxHook)}

\* failOnError, showWarnings and generateReport as given or defaulted.
DefaultOptions ==
  [failOnError |-> TRUE, showWarnings |-> TRUE, generateReport |-> FALSE]

OptionSets ==
  [failOnError : BOOLEAN, showWarnings : BOOLEAN, generateReport : BOOLEAN]

----------------------------------------------------------------------------
(* The state machine: one call of an exported function on inputs chosen    *)
(* at the start (validateTripData may be called a second time on the same  *)
(* record), or one run of the build hook, step by step.                    *)

None == [kind |-> "none"]

Noon == {DateV(HalfDay + 1)}

InitTrip(records, ids, clocks) ==
  /\ op = "validateTripData"
  /\ pc = "call"
  /\ tripData \in records
  /\ tripId \in ids
  /\ now \in clocks
  /\ trips = Undef
  /\ content = <<>>
  /\ result = None
  /\ results = None
  /\ report = None
  /\ previous = None
  /\ options = None
  /\ log = <<>>
  /\ args = None
  /\ tripsDir = None

\* A record for the validator of the script and for validateTripData.
InitBoth ==
  /\ op = "tripSchema.validate"
  /\ pc = "call"
  /\ tripData \in BothRecords
  /\ tripId = Str(<<"a">>)
  /\ now \in Noon
  /\ trips = None
  /\ content = None
  /\ result = None
  /\ results = None
  /\ report = None
  /\ previous = None
  /\ options = None
  /\ log = <<>>
  /\ args = None
  /\ tripsDir = None

\* A run of the script: its arguments and the trips directory it finds.
InitMain ==
  /\ op = "main"
  /\ pc = "call"
  /\ \/ args \in ArgLists /\ tripsDir \in FewDirectories
     \/ args \in FewArgLists /\ tripsDir \in Directories
  /\ tripData = None
  /\ tripId = None
  /\ now \in Noon
  /\ trips = None
  /\ content = None
  /\ result = None
  /\ results = None
  /\ report = None
  /\ previous = None
  /\ options = NoOptions
  /\ log = <<>>

InitBatch ==
  /\ op = "validateAllTripsFromData"
  /\ pc = "call"
  /\ tripData = Undef
  /\ tripId = Undef
  /\ now \in Clocks
  /\ trips \in BatchInputs
  /\ content = <<>>
  /\ result = None
  /\ results = None
  /\ report = None
  /\ previous = None
  /\ options = None
  /\ log = <<>>
  /\ args = None
  /\ tripsDir = None

InitContent ==
  /\ op = "validateContentFormat"
  /\ pc = "call"
  /\ tripData = Undef
  /\ tripId = Undef
  /\ now \in Noon
  /\ trips = Undef
  /\ content \in Contents
  /\ result = None
  /\ results = None
  /\ report = None
  /\ previous = None
  /\ options = None
  /\ log = <<>>
  /\ args = None
  /\ tripsDir = None

InitReport ==
  /\ op = "generateValidationReport"
  /\ pc = "call"
  /\ tripData = Undef
  /\ tripId = Undef
  /\ now \in Noon
  /\ trips = Undef
  /\ content = <<>>
  /\ result = None
  /\ results \in {Returned(rs) : rs \in ReportInputs}
  /\ report = None
  /\ previous = None
  /\ options = None
  /\ log = <<>>
  /\ args = None
  /\ tripsDir = None

InitHook ==
  /\ op = "astro:build:start"
  /\ pc = "call"
  /\ tripData = Undef
  /\ tripId = Undef
  /\ now \in Noon
  /\ trips = Undef
  /\ content = <<>>
  /\ result = None
  /\ results = None
  /\ report = None
  /\ previous = None
  /\ options \in OptionSets
  /\ log = <<>>
  /\ args = None
  /\ tripsDir = None

Init ==
  \/ InitTrip(NonRecords, Ids, Noon)
  \/ InitTrip(DatedRecords, {Str(<<"a">>)}, Clocks)
  \/ InitTrip(StatsRecords, {Str(<<"a">>)}, Noon)
  \/ InitTrip(RouteRecords, {Str(<<"a">>)}, Noon)
  \/ InitTrip(ShapedRecords, {Str(<<"b">>)}, Noon)
  \/ InitTrip(SchemaRecords, {Str(<<"a">>)}, Noon)
  \/ InitTrip(MixedRecords, {Str(<<"a">>)}, Noon)
  \/ InitBoth
  \/ InitMain
  \/ InitBatch
  \/ InitContent
  \/ InitReport
  \/ InitHook

CallValidateTripData ==
  /\ op = "validateTripData"
  /\ pc = "call"
  /\ result' = validateTripData(tripData, tripId, now)
  /\ pc' = "done"
  /\ UNCHANGED <<op, tripData, tripId, now, trips, content, results, report,
               previous, options, log, args, tripsDir>>

\* The same call made again on the same record and id, at the same instant or
\* later; previous keeps what the first call gave.
CallValidateTripDataAgain ==
  /\ op = "validateTripData"
  /\ pc = "done"
  /\ now' \in {c \in Clocks : c.ms >= now.ms}
  /\ previous' = [out |-> result, now |-> now]
  /\ result' = validateTripData(tripData, tripId, now')
  /\ pc' = "again"
  /\ UNCHANGED <<op, tripData, tripId, trips, content, results, report,
               options, log, args, tripsDir>>

\* The script validates the record.
CallTripSchemaValidate ==
  /\ op = "tripSchema.validate"
  /\ pc = "call"
  /\ result' = tripSchemaValidate(tripData, now)
  /\ pc' = "done"
  /\ UNCHANGED <<op, tripData, tripId, now, trips, content, results, report,
               previous, options, log, args, tripsDir>>

\* validateTripData validates the record the script has validated.
CallValidateTripDataToo ==
  /\ op = "tripSchema.validate"
  /\ pc = "done"
  /\ previous' = [out |-> result, now |-> now]
  /\ result' = validateTripData(tripData, tripId, now)
  /\ pc' = "both"
  /\ UNCHANGED <<op, tripData, tripId, now, trips, content, results, report,
               options, log, args, tripsDir>>

CallValidateAllTripsFromData ==
  /\ op = "validateAllTripsFromData"
  /\ pc = "call"
  /\ results' = Returned(validateAllTripsFromData(trips, now))
  /\ pc' = "done"
  /\ UNCHANGED <<op, tripData, tripId, now, trips, content, result, report,
               previous, options, log, args, tripsDir>>

CallValidateContentFormat ==
  /\ op = "validateContentFormat"
  /\ pc = "call"
  /\ result' = Returned(validateContentFormat(content))
  /\ pc' = "done"
  /\ UNCHANGED <<op, tripData, tripId, now, trips, content, results, report,
               previous, options, log, args, tripsDir>>

CallGenerateValidationReport ==
  /\ op = "generateValidationReport"
  /\ pc = "call"
  /\ report' = generateValidationReport(results.value)
  /\ pc' = "done"
  /\ UNCHANGED <<op, tripData, tripId, now, trips, content, result, results,
               previous, options, log, args, tripsDir>>

\* Lines 41-46: the import of the validation module fails, validateAllTrips
\* rejects, or it resolves to a list of results.
HookValidate ==
  /\ op = "astro:build:start"
  /\ pc = "call"
  /\ log' = Append(log, Log("info", <<MAG, " Validating trip content...">>))
  /\ \/ \E error \in {"import", "validateAllTrips"} :
          /\ result' = Caught(error)
          /\ pc' = "catch"
          /\ UNCHANGED results
     \/ \E rs \in HookResults :
          /\ results' = Returned(rs)
          /\ pc' = "log"
          /\ UNCHANGED result
  /\ UNCHANGED <<op, tripData, tripId, now, trips, content, report, previous,
               options, args, tripsDir>>

\* Lines 47-83.
HookLog ==
  /\ op = "astro:build:start"
  /\ pc = "log"
  /\ log' = log \o SummaryLog(results.value, options.showWarnings)
                \o ErrorsLog(results.value)
                \o WarningsLog(results.value, options.showWarnings)
  /\ pc' = "report"
  /\ UNCHANGED <<op, tripData, tripId, now, trips, content, result, results,
               report, previous, options, args, tripsDir>>

\* Lines 86-92: writeFileSync writes the report or raises.
HookReport ==
  /\ op = "astro:build:start"
  /\ pc = "report"
  /\ IF options.generateReport
     THEN \/ /\ report' = generateValidationReport(results.value)
             /\ log' = Append(log, Log("info", <<PAGE,
                          " Validation report written to: ", "validation-report.md">>))
             /\ pc' = "gate"
             /\ UNCHANGED result
          \/ /\ result' = Caught("writeFileSync")
             /\ pc' = "catch"
             /\ UNCHANGED <<report, log>>
     ELSE /\ pc' = "gate"
          /\ UNCHANGED <<report, log, result>>
  /\ UNCHANGED <<op, tripData, tripId, now, trips, content, results, previous,
               options, args, tripsDir>>

\* Lines 95-101; the Error of line 96 is thrown again by line 105.
HookGate ==
  /\ op = "astro:build:start"
  /\ pc = "gate"
  /\ IF GateFails(options.failOnError, results.value)
     THEN /\ result' = Rejected(ValidationFailed(results.value))
          /\ pc' = "threw"
          /\ UNCHANGED log
     ELSE /\ result' = Returned(Undef)
          /\ pc' = "done"
          /\ log' = IF Len(InvalidTrips(results.value)) = 0
                    THEN Append(log, Log("info", <<CHECK, " All trip content is valid!">>))
                    ELSE log
  /\ UNCHANGED <<op, tripData, tripId, now, trips, content, results, report,
               previous, options, args, tripsDir>>

\* HookCatch rejecting whatever failOnError is.
HookCatchRejects ==
  /\ op = "astro:build:start"
  /\ pc = "catch"
  /\ log' = Append(log, Log("error", <<CROSS, " Content validation error: ",
                                       result.error>>))
  /\ result' = Rejected(NotCompleted)
  /\ pc' = "threw"
  /\ UNCHANGED <<op, tripData, tripId, now, trips, content, results, report,
               previous, options, args, tripsDir>>

\* Lines 103-111 for an exception other than the Error of line 96.
HookCatch ==
  /\ op = "astro:build:start"
  /\ pc = "catch"
  /\ log' = Append(log, Log("error", <<CROSS, " Content validation error: ",
                                       result.error>>))
  /\ IF options.failOnError
     THEN result' = Rejected(NotCompleted) /\ pc' = "threw"
     ELSE result' = Returned(Undef) /\ pc' = "done"
  /\ UNCHANGED <<op, tripData, tripId, now, trips, content, results, report,
               previous, options, args, tripsDir>>

\* Lines 243-283: the arguments are read; --help prints the usage and ends
\* the process with code 0.
MainParse ==
  /\ op = "main"
  /\ pc = "call"
  /\ LET parsed == ParseArgs(args, 1, NoOptions)
     IN /\ options' = parsed.options
        /\ IF parsed.help
           THEN /\ log' = Append(log, Log("log", <<"Usage">>))
                /\ result' = Exit(0)
                /\ pc' = "exited"
           ELSE /\ pc' = "validate"
                /\ UNCHANGED <<log, result>>
  /\ UNCHANGED <<op, tripData, tripId, now, trips, content, results, report,
               previous, args, tripsDir>>

\* Lines 283-296: the files are validated and the report is written to the
\* file of --output, where writeFileSync may raise, or printed.
MainValidate ==
  /\ op = "main"
  /\ pc = "validate"
  /\ LET rs == validateAllTripFiles(tripsDir, now)
         started == Append(log, Log("log", <<MAG, " Validating trip content...\n">>))
     IN /\ results' = Returned(rs)
        /\ IF Truthy(options.output)
           THEN \/ /\ report' = generateReport(rs, now)
                   /\ log' = Append(started, Log("log", <<PAGE, " Report written to: ">>
                                                        \o options.output.s))
                   /\ pc' = "summary"
                   /\ UNCHANGED result
                \/ /\ result' = Uncaught
                   /\ pc' = "exited"
                   /\ log' = started
                   /\ UNCHANGED report
           ELSE /\ log' = Append(started, Log("log", Flatten(generateReport(rs, now))))
                /\ pc' = "summary"
                /\ UNCHANGED <<report, result>>
  /\ UNCHANGED <<op, tripData, tripId, now, trips, content, previous, options,
               args, tripsDir>>

\* Lines 298-325: the summary, the details of --verbose, and the end of the
\* process.
MainFinish ==
  /\ op = "main"
  /\ pc = "summary"
  /\ LET rs == results.value
         printed == log \o SummaryOutput(rs)
                        \o (IF options.verbose THEN DetailedOutput(rs) ELSE <<>>)
     IN IF ExitsWithError(options, rs)
        THEN /\ log' = Append(printed, Log("log", <<"\n", ":boom:",
                          " Exiting with error code due to validation failures">>))
             /\ result' = Exit(1)
        ELSE /\ log' = Append(printed, Log("log", <<"\n", ":sparkles:",
                                                    " Validation complete!">>))
             /\ result' = Exit(0)
  /\ pc' = "exited"
  /\ UNCHANGED <<op, tripData, tripId, now, trips, content, results, report,
               previous, options, args, tripsDir>>

Next ==
  \/ MainParse
  \/ MainValidate
  \/ MainFinish
  \/ CallTripSchemaValidate
  \/ CallValidateTripDataToo
  \/ CallValidateTripData
  \/ CallValidateTripDataAgain
  \/ CallValidateAllTripsFromData
  \/ CallValidateContentFormat
  \/ CallGenerateValidationReport
  \/ HookValidate
  \/ HookLog
  \/ HookReport
  \/ HookGate
  \/ HookCatch

Spec == Init /\ [][Next]_vars

----------------------------------------------------------------------------
(* Properties.                                                             *)

TripDone == op = "validateTripData" /\ pc = "done"

TripReturned == TripDone /\ result.kind = "returned"

ContentDone == op = "validateContentFormat" /\ pc = "done"

BatchDone == op = "validateAllTripsFromData" /\ pc = "done"

\* The number of entries of a list of messages that satisfy P.
Count(msgs, P(_)) == Cardinality({i \in DOMAIN msgs : P(msgs[i])})

\* C1: every result validateTripData or validateContentFormat returns has
\* isValid = true exactly when its errors list is empty, whatever its
\* warnings are.
C1_ValidIffNoErrors ==
  (TripReturned \/ ContentDone)
    => (result.value.isValid <=> result.value.errors = <<>>)

\* A returned result that is valid and carries warnings, and so shows that
\* warnings leave isValid alone.
C1_Witness ==
  /\ TripReturned
  /\ result.value.isValid
  /\ Len(result.value.warnings) >= 2

\* C2: validateTripData never throws, whatever the type or shape of the
\* fields of the value it is given.
C2_NeverThrows == TripDone => result.kind = "returned"

\* C3: for null, undefined, a value that is no object and {}, validateTripData
\* returns a result with isValid = false, at least one error and the id it
\* was given.
C3_NonRecordRejected ==
  (TripDone /\ tripData \in NonRecords)
    => /\ result.kind = "returned"
       /\ ~result.value.isValid
       /\ Len(result.value.errors) >= 1
       /\ result.value.tripId = tripId

\* The empty object has been validated and rejected under the second id.
C3_Witness ==
  /\ TripReturned
  /\ tripData = Obj(Empty)
  /\ tripId = Str(<<"b">>)
  /\ ~result.value.isValid

\* The input of the batch is a list of {id, data} pairs.
PairsGiven ==
  trips.t = "array" /\ \A i \in 1..Len(trips.a) : trips.a[i].t = "object"

\* What validateTripData does for the i-th record when run alone.
Alone(i) == validateTripData(Get(trips.a[i], "data"), Get(trips.a[i], "id"), now)

\* C4: validateAllTripsFromData returns one result per {id, data} pair, in
\* input order: same length, and the i-th tripId is the i-th id.
C4_OnePerRecord ==
  (BatchDone /\ PairsGiven)
    => /\ Len(results.value) = Len(trips.a)
       /\ \A i \in 1..Len(trips.a) :
            results.value[i].tripId = Get(trips.a[i], "id")

\* C5: the i-th result of a batch is what validateTripData returns for the
\* i-th record alone, whatever the other records of the batch are.
C5_RecordIndependence ==
  (BatchDone /\ PairsGiven)
    => \A i \in 1..Len(trips.a) :
         Alone(i).kind = "returned"
           => /\ i <= Len(results.value)
              /\ results.value[i] = Alone(i).value

\* The input of the batch cannot be iterated or processed: it is no list, an
\* element is null or undefined, or validating a record raises.
Unprocessable ==
  \/ trips.t # "array"
  \/ \E i \in 1..Len(trips.a) : IsNullish(trips.a[i])
  \/ \E i \in 1..Len(trips.a) : Alone(i).kind = "threw"

\* C6: validateAllTripsFromData never throws, and an input it cannot iterate
\* or process gives exactly one result: tripId "collection", isValid = false,
\* one error and no warnings.
C6_BatchFailure ==
  BatchDone
    => /\ results.kind = "returned"
       /\ Unprocessable
            => /\ Len(results.value) = 1
               /\ results.value[1].tripId = Str(COLLECTION)
               /\ ~results.value[1].isValid
               /\ Len(results.value[1].errors) = 1
               /\ results.value[1].warnings = <<>>

\* A batch of a valid pair followed by null has given the collection result.
C6_Witness ==
  /\ BatchDone
  /\ trips.t = "array"
  /\ Len(trips.a) = 2
  /\ trips.a[1].t = "object"
  /\ trips.a[2] = Null
  /\ Len(results.value) = 1
  /\ results.value[1].tripId = Str(COLLECTION)

\* The fields of the record validated, for a record that is an object.
StartDate == Get(tripData, "startDate")

EndDate == Get(tripData, "endDate")

IsOrderMessage(m) == m = <<"startDate must be before endDate">>

\* C7: the error "startDate must be before endDate" is added, once and with
\* isValid = false, exactly when both dates are present and startDate is
\* strictly later than endDate; equal dates add none, and the finding is
\* never a warning.
C7_DateOrdering ==
  (TripReturned /\ tripData.t = "object")
    => LET later == /\ StartDate.t = "date"
                    /\ EndDate.t = "date"
                    /\ StartDate.ms > EndDate.ms
       IN /\ Count(result.value.errors, IsOrderMessage) = (IF later THEN 1 ELSE 0)
          /\ later => ~result.value.isValid
          /\ Count(result.value.warnings, IsOrderMessage) = 0

\* A record that starts half a day after it ends has been rejected.
C7_Witness ==
  /\ TripReturned
  /\ tripData.t = "object"
  /\ StartDate = DateV(MsPerDay)
  /\ EndDate = DateV(HalfDay)
  /\ Count(result.value.errors, IsOrderMessage) = 1
  /\ ~result.value.isValid

\* A pair of two numbers.
IsNumberPair(c) ==
  c.t = "array" /\ Len(c.a) = 2 /\ c.a[1].t = "number" /\ c.a[2].t = "number"

\* The range errors of one kind reported for the entry of index i (from 0) of
\* a list of the route.
RangeErrors(msgs, where, i, what) ==
  Cardinality({k \in DOMAIN msgs :
                 /\ Len(msgs[k]) >= 6
                 /\ msgs[k][1] = where
                 /\ msgs[k][3] = ToString(i)
                 /\ msgs[k][6] = what})

OutsideLng(n) == n < Whole(-180) \/ n > Whole(180)

OutsideLat(n) == n < Whole(-90) \/ n > Whole(90)

\* What C8 asks of the pair c found at index i (from 0) of the list `where`.
PairChecked(c, where, i) ==
  /\ RangeErrors(result.value.errors, where, i, "longitude")
       = (IF OutsideLng(c.a[1].n) THEN 1 ELSE 0)
  /\ RangeErrors(result.value.errors, where, i, "latitude")
       = (IF OutsideLat(c.a[2].n) THEN 1 ELSE 0)
  /\ RangeErrors(result.value.warnings, where, i, "longitude") = 0
  /\ RangeErrors(result.value.warnings, where, i, "latitude") = 0
  /\ (OutsideLng(c.a[1].n) \/ OutsideLat(c.a[2].n)) => ~result.value.isValid

\* C8: for every pair [a, b] of route.coordinates and of the waypoints, one
\* longitude error iff a is outside [-180, 180] and one latitude error iff b
\* is outside [-90, 90] (the edges are inside); the findings are errors and
\* make isValid false.
C8_CoordinateRanges ==
  TripReturned
    => LET cs == RouteGet(tripData, "coordinates")
           ws == RouteGet(tripData, "waypoints")
       IN /\ cs.t = "array"
               => \A i \in 1..Len(cs.a) :
                    IsNumberPair(cs.a[i])
                      => PairChecked(cs.a[i], "route.coordinates", i - 1)
          /\ ws.t = "array"
               => \A i \in 1..Len(ws.a) :
                    IsNumberPair(Get(ws.a[i], "coordinates"))
                      => PairChecked(Get(ws.a[i], "coordinates"),
                                     "route.waypoints", i - 1)

\* The pairs [180.0001, 90] and [90.0001, 90.0001] have given one longitude
\* error at index 0 and one latitude error at index 1, and nothing else.
C8_Witness ==
  /\ TripReturned
  /\ RouteGet(tripData, "coordinates")
       = Arr(<<Pair(Whole(180) + 1, Whole(90)),
               Pair(Whole(90) + 1, Whole(90) + 1)>>)
  /\ RangeErrors(result.value.errors, "route.coordinates", 0, "longitude") = 1
  /\ RangeErrors(result.value.errors, "route.coordinates", 0, "latitude") = 0
  /\ RangeErrors(result.value.errors, "route.coordinates", 1, "longitude") = 0
  /\ RangeErrors(result.value.errors, "route.coordinates", 1, "latitude") = 1

Stats == Get(tripData, "stats")

\* The positions of the stats entries with id "duration" or "days", and the
\* value of the first of them, which is the one the check reads.
DurationEntries ==
  {i \in 1..Len(Stats.a) : Get(Stats.a[i], "id") \in {Str(DURATION), Str(DAYS)}}

DurationValue ==
  Get(Stats.a[CHOOSE i \in DurationEntries : \A j \in DurationEntries : i <= j],
      "value")

\* ceil((endDate - startDate) / 1 day) + 1
DaysDiff == ((EndDate.ms - StartDate.ms) + (MsPerDay - 1)) \div MsPerDay + 1

Distance(a, b) == IF a < b THEN b - a ELSE a - b

\* Both dates are present and valid, stats is a list with a duration entry,
\* and the value of that entry is more than 1 away from daysDiff.
DurationMismatch ==
  /\ StartDate.t = "date"
  /\ EndDate.t = "date"
  /\ Stats.t = "array"
  /\ DurationEntries # {}
  /\ DurationValue.t = "number"
  /\ Distance(Whole(DaysDiff), DurationValue.n) > Whole(1)

IsDurationMessage(m) == m[1] = "stats duration ("

Jan1To15 == StartDate = DateV(0) /\ EndDate = DateV(14 * MsPerDay)

\* C9: one duration warning, naming the value of the stat and daysDiff, iff
\* both dates are present, stats is a list with an entry "duration" or "days"
\* (the first one, when there are several) and |daysDiff - value| > 1; the
\* finding is never an error; 2024-01-01..2024-01-15 gives no warning for a
\* duration of 15 and one warning naming 20 and 15 for a duration of 20.
C9_DurationWarning ==
  (TripReturned /\ tripData.t = "object")
    => /\ Count(result.value.warnings, IsDurationMessage)
            = (IF DurationMismatch THEN 1 ELSE 0)
       /\ Count(result.value.errors, IsDurationMessage) = 0
       /\ DurationMismatch
            => \E k \in DOMAIN result.value.warnings :
                 /\ IsDurationMessage(result.value.warnings[k])
                 /\ result.value.warnings[k][2] = NumToString(DurationValue.n)
                 /\ result.value.warnings[k][4] = ToString(DaysDiff)
       /\ (Jan1To15 /\ Stats = Arr(<<Stat(DURATION, Whole(15))>>))
            => Count(result.value.warnings, IsDurationMessage) = 0
       /\ (Jan1To15 /\ Stats = Arr(<<Stat(DURATION, Whole(20))>>))
            => \E k \in DOMAIN result.value.warnings :
                 /\ result.value.warnings[k][2] = "20"
                 /\ result.value.warnings[k][4] = "15"

\* 2024-01-01..2024-01-15 with a duration of 20 has given its one warning.
C9_Witness ==
  /\ TripReturned
  /\ tripData.t = "object"
  /\ Jan1To15
  /\ Stats = Arr(<<Stat(DURATION, Whole(20))>>)
  /\ Count(result.value.warnings, IsDurationMessage) = 1

Status == Get(tripData, "status")

InFuture(d) == d.t = "date" /\ d.ms > now.ms

InPast(d) == d.t = "date" /\ d.ms < now.ms

IsStatusMessage(m) == m[1] = "Trip marked as \""

\* The status warnings for the given status, date and direction.
StatusWarnings(msgs, status, which, when) ==
  Count(msgs, LAMBDA m : /\ IsStatusMessage(m)
                         /\ m[2] = status
                         /\ m[4] = which
                         /\ m[6] = when)

Indicator(b) == IF b THEN 1 ELSE 0

\* C10: one warning, never an error, for each mismatch that holds when the
\* record is validated: current and start in the future, current and end in
\* the past, completed and end in the future, planned and start in the past;
\* no other status warning; a current trip that starts and ends in the
\* future gets exactly one, with "current" and "future".
C10_StatusWarnings ==
  (TripReturned /\ tripData.t = "object")
    => LET ws == result.value.warnings
           currentEarly == Status = Str(CURRENT) /\ InFuture(StartDate)
           currentLate == Status = Str(CURRENT) /\ InPast(EndDate)
           completedEarly == Status = Str(COMPLETED) /\ InFuture(EndDate)
           plannedLate == Status = Str(PLANNED) /\ InPast(StartDate)
       IN /\ StatusWarnings(ws, "current", "start", "future")
               = Indicator(currentEarly)
          /\ StatusWarnings(ws, "current", "end", "past") = Indicator(currentLate)
          /\ StatusWarnings(ws, "completed", "end", "future")
               = Indicator(completedEarly)
          /\ StatusWarnings(ws, "planned", "start", "past")
               = Indicator(plannedLate)
          /\ Count(ws, IsStatusMessage)
               = Indicator(currentEarly) + Indicator(currentLate)
                   + Indicator(completedEarly) + Indicator(plannedLate)
          /\ Count(result.value.errors, IsStatusMessage) = 0
          /\ (Status = Str(CURRENT) /\ InFuture(StartDate) /\ InFuture(EndDate))
               => Count(ws, IsStatusMessage) = 1

\* The text of a message: its pieces joined.
RECURSIVE TextOf(_)
TextOf(m) == IF m = <<>> THEN "" ELSE Head(m) \o TextOf(Tail(m))

\* A path element that is a position in an array.
IsIndex(p) == p \in {ToString(k) : k \in 0..9}

\* A path written with bracketed indices and dotted names: stats[0].value.
RECURSIVE Bracketed(_, _)
Bracketed(path, first) ==
  IF path = <<>> THEN ""
  ELSE (IF IsIndex(Head(path)) THEN "[" \o Head(path) \o "]"
        ELSE IF first THEN Head(path) ELSE "." \o Head(path))
       \o Bracketed(Tail(path), FALSE)

\* C11: every schema error is the path of the offending field, written with
\* bracketed indices and dotted names, then ": " and the message of the
\* issue; a negative value in the first stats entry gives an error that
\* starts with "stats[0].value" and an empty id in the second one that
\* starts with "stats[1].id".
C11_BracketedPaths ==
  (TripReturned /\ tripData.t = "object")
    => LET issues == tripSchema(tripData)
           errors == result.value.errors
       IN /\ Len(errors) >= Len(issues)
          /\ \A i \in 1..Len(issues) :
               TextOf(errors[i])
                 = Bracketed(issues[i].path, TRUE) \o ": " \o issues[i].message
          /\ (/\ Stats.t = "array"
              /\ Len(Stats.a) >= 1
              /\ Get(Stats.a[1], "value") = Num(-Whole(1)))
               => \E k \in DOMAIN errors :
                    TextOf(errors[k])
                      = "stats[0].value: Stat value must be positive"
          /\ (/\ Stats.t = "array"
              /\ Len(Stats.a) >= 2
              /\ Get(Stats.a[2], "id") = Str(<<>>))
               => \E k \in DOMAIN errors :
                    TextOf(errors[k]) = "stats[1].id: Stat id is required"

HeaderImage == Get(tripData, "headerImage")

Gallery == Get(tripData, "gallery")

\* A path is given (a string that is not empty) and does not start with "/".
Relative(image) == image.t = "string" /\ image.s # <<>> /\ image.s[1] # "/"

IsPathMessage(m) == m[Len(m)] = " should start with \"/\" for absolute path"

IsHeaderImageMessage(m) ==
  TextOf(m) = "headerImage should start with \"/\" for absolute path"

\* The path warning of the gallery entry of index i (from 0).
IsGalleryMessage(m, i) ==
  TextOf(m) = "gallery[" \o ToString(i)
                \o "].image should start with \"/\" for absolute path"

\* The positions of the gallery entries whose image is a relative path.
RelativeEntries ==
  IF Gallery.t = "array"
  THEN {i \in 1..Len(Gallery.a) : Relative(Get(Gallery.a[i], "image"))}
  ELSE {}

\* C12: one warning for headerImage iff it is given and does not start with
\* "/", one warning naming gallery[i].image for each gallery entry whose
\* image is given and does not start with "/", none for the other entries,
\* and none of these findings is an error.
C12_ImagePathWarnings ==
  (TripReturned /\ tripData.t = "object")
    => LET ws == result.value.warnings
           es == result.value.errors
       IN /\ Count(ws, IsHeaderImageMessage) = Indicator(Relative(HeaderImage))
          /\ Gallery.t = "array"
               => \A i \in 1..Len(Gallery.a) :
                    Count(ws, LAMBDA m : IsGalleryMessage(m, i - 1))
                      = Indicator(i \in RelativeEntries)
          /\ Count(ws, IsPathMessage)
               = Indicator(Relative(HeaderImage)) + Cardinality(RelativeEntries)
          /\ Count(es, IsPathMessage) = 0

\* A relative headerImage and a gallery of a relative and an absolute path
\* have given the warning of headerImage and that of gallery[0] only.
C12_Witness ==
  /\ TripReturned
  /\ HeaderImage = Str(<<"h">>)
  /\ Gallery = Arr(<<GalleryItem(Str(<<"g">>)), GalleryItem(Str(<<"/", "g">>))>>)
  /\ Count(result.value.warnings, IsPathMessage) = 2
  /\ Count(result.value.warnings, LAMBDA m : IsGalleryMessage(m, 0)) = 1

\* The content starts with the delimiter.
Opened == Len(content) >= 3 /\ SubSeq(content, 1, 3) = <<"-", "-", "-">>

\* The delimiter occurs again after the opening one.
Closed ==
  \E k \in 4..(Len(content) - 2) : SubSeq(content, k, k + 2) = <<"-", "-", "-">>

\* The result of a delimiter failure: the one error, no warning, not valid.
Failure(message) ==
  [isValid |-> FALSE, errors |-> << <<message>> >>, warnings |-> <<>>]

\* C13: content that does not start with "---" gives exactly the error
\* "must start with frontmatter", content that starts with "---" and has no
\* later "---" exactly the error "must be properly closed"; in both cases
\* there is no warning (no metadata or body check) and isValid is false.
C13_DelimiterFailure ==
  ContentDone
    => /\ ~Opened
            => result.value = Failure("Content must start with frontmatter (---)")
       /\ (Opened /\ ~Closed)
            => result.value
                 = Failure("Frontmatter must be properly closed with ---")

\* An opened block with a line of free text, never closed and with no body,
\* has given the closing error alone.
C13_Witness ==
  /\ ContentDone
  /\ content = DELIMITER \o <<"\n", " ", "b", "a", "d", "\n">>
  /\ Len(result.value.errors) = 1
  /\ result.value.warnings = <<>>

\* C14: content that starts with "---" and holds "---" again later gives no
\* error and isValid = true, whatever the metadata and the body are; the
\* errors list never has more than one entry.
C14_ClosedNeverErrors ==
  ContentDone
    => /\ (Opened /\ Closed)
            => result.value.errors = <<>> /\ result.value.isValid
       /\ Len(result.value.errors) <= 1

\* A closed block with a line of free text and no body is valid and carries
\* the metadata warning and the three body warnings.
C14_Witness ==
  /\ ContentDone
  /\ content = DELIMITER \o <<"\n", " ", "b", "a", "d", "\n">> \o DELIMITER
  /\ result.value.isValid
  /\ Len(result.value.warnings) = 4

\* The position (from 1) of the first delimiter after the opening one, and
\* the text after it.
ClosingAt ==
  CHOOSE k \in 4..(Len(content) - 2) :
    /\ SubSeq(content, k, k + 2) = <<"-", "-", "-">>
    /\ \A j \in 4..(k - 1) : SubSeq(content, j, j + 2) # <<"-", "-", "-">>

Body == SubSeq(content, ClosingAt + 3, Len(content))

Blank(s) == \A i \in DOMAIN s : s[i] \in {" ", "\t", "\n", "\r"}

StartsWithHeading(s) ==
  Len(s) >= 2 /\ s[1] = "#" /\ s[2] \in {" ", "\t", "\n", "\r"}

IsNoContentMessage(m) == m = <<"No markdown content found after frontmatter">>

IsHeadingMessage(m) ==
  m = <<"Consider adding a main heading (# Title) to the markdown content">>

IsShortMessage(m) ==
  m = <<"Markdown content is very short, consider adding more details">>

\* C15: for content with a closed metadata block, one "No markdown content
\* found" warning iff the text after the closing delimiter is empty or all
\* whitespace, one "main heading" warning iff that text does not start with
\* "#" and a whitespace character, one "very short" warning iff that text,
\* trimmed, has fewer than 100 characters; no condition adds two.
C15_BodyWarnings ==
  (ContentDone /\ Opened /\ Closed)
    => LET ws == result.value.warnings
       IN /\ Count(ws, IsNoContentMessage) = Indicator(Blank(Body))
          /\ Count(ws, IsHeadingMessage) = Indicator(~StartsWithHeading(Body))
          /\ Count(ws, IsShortMessage) = Indicator(Len(Trim(Body)) < 100)

\* A body of a heading and 99 characters in all gets the "very short"
\* warning and neither of the other two.
C15_Witness ==
  /\ ContentDone
  /\ Opened
  /\ Closed
  /\ Len(Trim(Body)) = 99
  /\ StartsWithHeading(Body)
  /\ Count(result.value.warnings, IsShortMessage) = 1
  /\ Count(result.value.warnings, IsHeadingMessage) = 0
  /\ Count(result.value.warnings, IsNoContentMessage) = 0

ReportDone == op = "generateValidationReport" /\ pc = "done"

Given == results.value

\* The count the summary of the report gives after the given label.
Reported(label) ==
  LET at == CHOOSE i \in DOMAIN report : report[i] # <<>> /\ report[i][1] = label
  IN report[at][2]

\* C16: the counts of the report satisfy Valid + Invalid = Total, and the
\* Invalid count is the number of results whose errors list is not empty.
C16_ReportCounts ==
  ReportDone
    => /\ \E v, n \in 0..Len(Given) :
            /\ Reported("- Valid trips: ") = ToString(v)
            /\ Reported("- Invalid trips: ") = ToString(n)
            /\ Reported("- Total trips: ") = ToString(v + n)
       /\ Reported("- Invalid trips: ")
            = ToString(Cardinality({i \in DOMAIN Given : Given[i].errors # <<>>}))

\* The report of two valid results and an invalid one gives 3, 2 and 1.
C16_Witness ==
  /\ ReportDone
  /\ Len(Given) = 3
  /\ Reported("- Total trips: ") = "3"
  /\ Reported("- Valid trips: ") = "2"
  /\ Reported("- Invalid trips: ") = "1"

\* The positions of a line in the report.
LinesOf(line) == {i \in DOMAIN report : report[i] = line}

SomeInvalid == \E i \in DOMAIN Given : ~Given[i].isValid

SomeValidWarned ==
  \E i \in DOMAIN Given : Given[i].isValid /\ Given[i].warnings # <<>>

\* C17: the invalid-trips header is in the report iff a result is invalid,
\* the warnings header iff a valid result has warnings (no header for an
\* empty group), and the invalid-trips header comes first.
C17_ReportSections ==
  ReportDone
    => /\ LinesOf(<<"## ", CROSS, " Invalid Trips">>) # {} <=> SomeInvalid
       /\ LinesOf(<<"## ", WARNING, " Trips with Warnings">>) # {}
            <=> SomeValidWarned
       /\ \A i \in LinesOf(<<"## ", CROSS, " Invalid Trips">>) :
            \A j \in LinesOf(<<"## ", WARNING, " Trips with Warnings">>) : i < j

\* The all-clear message is in the report and names the number of results.
AllClear ==
  /\ LinesOf(<<"## ", CHECK, " All trips are valid!">>) # {}
  /\ LinesOf(<<"All ", ToString(Len(Given)),
               " trips passed validation without errors or warnings.">>) # {}

\* No part of the all-clear message is in the report.
NoAllClear ==
  \A i \in DOMAIN report :
    /\ report[i] # <<"## ", CHECK, " All trips are valid!">>
    /\ report[i] = <<>> \/ report[i][1] # "All "

SomeWarned == \E i \in DOMAIN Given : Given[i].warnings # <<>>

\* C18 as stated: for every list of results the report holds the all-clear
\* message, naming the total, iff no result is invalid and none has warnings.
C18_AllClear ==
  ReportDone
    => /\ AllClear <=> (~SomeInvalid /\ ~SomeWarned)
       /\ AllClear \/ NoAllClear

\* C18 amended: for every list of at least one result the report holds the
\* all-clear message, naming the total, iff no result is invalid and none has
\* warnings; the report of the empty list holds none.
C18_AllClearNonEmpty ==
  ReportDone
    => /\ Given # <<>> => (AllClear <=> (~SomeInvalid /\ ~SomeWarned))
       /\ Given = <<>> => ~AllClear
       /\ AllClear \/ NoAllClear

\* Two valid results without warnings have given "All 2 trips passed ...".
C18_Witness ==
  /\ ReportDone
  /\ Len(Given) = 2
  /\ AllClear

\* The record has been validated twice.
TripTwice == op = "validateTripData" /\ pc = "again"

First == previous.out

\* The warnings that are no status/date warning, in order.
NonStatus(ws) == SelectSeq(ws, LAMBDA m : ~IsStatusMessage(m))

\* A date of the record is before, at or after both instants alike.
SameSide(d) ==
  d.t = "date"
    => /\ d.ms < previous.now.ms <=> d.ms < now.ms
       /\ d.ms > previous.now.ms <=> d.ms > now.ms

\* C19 as stated: validating the same record with the same id twice gives
\* the same errors and the same warnings, entry for entry.
C19_Idempotent ==
  TripTwice
    => /\ result.kind = First.kind
       /\ result.kind = "returned"
            => /\ result.value.errors = First.value.errors
               /\ result.value.warnings = First.value.warnings

\* C19 amended: the second validation ends as the first (both return or both
\* raise) with the same errors and the same warnings apart from the
\* status/date warnings, entry for entry; the status/date warnings are the
\* same too when no date of the record has been reached or passed between
\* the two calls.
C19_IdempotentBesidesStatus ==
  TripTwice
    => /\ result.kind = First.kind
       /\ result.kind = "returned"
            => /\ result.value.tripId = First.value.tripId
               /\ result.value.errors = First.value.errors
               /\ NonStatus(result.value.warnings)
                    = NonStatus(First.value.warnings)
               /\ (tripData.t = "object" /\ SameSide(StartDate)
                     /\ SameSide(EndDate))
                    => result.value.warnings = First.value.warnings

\* A record with an error and a warning has been validated at two different
\* instants and has given the same result twice.
C19_Witness ==
  /\ TripTwice
  /\ now # previous.now
  /\ result.kind = "returned"
  /\ result = First
  /\ result.value.errors # <<>>
  /\ result.value.warnings # <<>>

HookOp == op = "astro:build:start"

\* The hook has ended: it resolved ("done") or rejected ("threw").
HookEnded == HookOp /\ pc \in {"done", "threw"}

\* The logger has been given the error at level error.
ErrorLogged(error) ==
  \E i \in DOMAIN log :
    log[i].level = "error" /\ log[i].text = <<"     - ">> \o error

AllErrorsLogged ==
  \A i \in DOMAIN Given :
    ~Given[i].isValid
      => \A k \in DOMAIN Given[i].errors : ErrorLogged(Given[i].errors[k])

SchemaFails == tripSchema(tripData) # <<>>

\* The status/date warnings that name the given date ("start" or "end").
AboutDate(msgs, which) ==
  Count(msgs, LAMBDA m : IsStatusMessage(m) /\ m[4] = which)

\* The range errors reported for a list of the route.
RangeErrorsOf(msgs, where) ==
  Count(msgs, LAMBDA m : Len(m) >= 6 /\ m[1] = where /\ m[2] = "[")

\* C22: the business rules run whatever the schema says, and a rule whose
\* prerequisite is absent adds nothing.  For a record the schema rejects, a
\* later startDate still gives the ordering error, a pair out of range its
\* range error and a relative headerImage its warning; with a date absent
\* there is no ordering error, no duration warning and no status/date
\* warning about that date; with headerImage, gallery or a list of the route
\* absent there is no finding about it; and no rule raises an exception.
C22_RulesRunRegardless ==
  (TripDone /\ tripData.t = "object")
    => /\ result.kind = "returned"
       /\ LET es == result.value.errors
              ws == result.value.warnings
              cs == RouteGet(tripData, "coordinates")
          IN /\ (SchemaFails /\ StartDate.t = "date" /\ EndDate.t = "date"
                   /\ StartDate.ms > EndDate.ms)
                  => Count(es, IsOrderMessage) = 1
             /\ (SchemaFails /\ Relative(HeaderImage))
                  => Count(ws, IsHeaderImageMessage) = 1
             /\ (SchemaFails /\ cs.t = "array")
                  => \A i \in 1..Len(cs.a) :
                       IsNumberPair(cs.a[i])
                         => PairChecked(cs.a[i], "route.coordinates", i - 1)
             /\ (IsNullish(StartDate) \/ IsNullish(EndDate))
                  => /\ Count(es, IsOrderMessage) = 0
                     /\ Count(ws, IsDurationMessage) = 0
             /\ IsNullish(StartDate) => AboutDate(ws, "start") = 0
             /\ IsNullish(EndDate) => AboutDate(ws, "end") = 0
             /\ IsNullish(HeaderImage) => Count(ws, IsHeaderImageMessage) = 0
             /\ IsNullish(Gallery)
                  => Count(ws, IsPathMessage) = Indicator(Relative(HeaderImage))
             /\ IsNullish(cs) => RangeErrorsOf(es, "route.coordinates") = 0
             /\ IsNullish(RouteGet(tripData, "waypoints"))
                  => RangeErrorsOf(es, "route.waypoints") = 0

\* A formatted issue of the schema: `${path}: ${message}`.
IsSchemaMessage(m) == \E k \in DOMAIN m : m[k] = ": "

IsRangeMessage(m, where) == Len(m) >= 6 /\ m[1] = where /\ m[2] = "["

\* The index a range error names.
IndexNamed(m) == CHOOSE k \in 0..9 : ToString(k) = m[3]

\* The place of an error in the order of the rules.
Rank(m) ==
  IF IsSchemaMessage(m) THEN 0
  ELSE IF IsOrderMessage(m) THEN 1
  ELSE IF IsRangeMessage(m, "route.coordinates") THEN 2
  ELSE IF IsRangeMessage(m, "route.waypoints") THEN 3
  ELSE 4

\* C23: in every result the errors of the schema come first, as many as the
\* schema has issues, then the ordering error, then the range errors of
\* route.coordinates by ascending index, then those of route.waypoints by
\* ascending index; there is no error of another kind.
C23_ErrorOrder ==
  TripReturned
    => LET es == result.value.errors
       IN /\ \A i \in DOMAIN es :
               /\ Rank(es[i]) < 4
               /\ Rank(es[i]) = 0 <=> i <= Len(tripSchema(tripData))
          /\ \A i, j \in DOMAIN es :
               i < j => /\ Rank(es[i]) <= Rank(es[j])
                        /\ (Rank(es[i]) = Rank(es[j]) /\ Rank(es[i]) \in {2, 3})
                             => IndexNamed(es[i]) <= IndexNamed(es[j])

\* A result with errors of the four kinds, the range errors about two
\* entries of each list.
C23_Witness ==
  /\ TripReturned
  /\ LET es == result.value.errors
     IN /\ \A r \in 0..3 : \E i \in DOMAIN es : Rank(es[i]) = r
        /\ \A r \in {2, 3} :
             \E i, j \in DOMAIN es :
               /\ Rank(es[i]) = r /\ Rank(es[j]) = r
               /\ IndexNamed(es[i]) < IndexNamed(es[j])

\* The text between the opening delimiter and the next one.
MetaText == SubSeq(content, 4, ClosingAt - 1)

\* The positions at which the lines of a text start.
LineStarts(s) == {1} \cup {k + 1 : k \in {j \in DOMAIN s : s[j] = "\n"}}

\* The line of s that starts at position k, without its line break.
LineFrom(s, k) ==
  LET breaks == {j \in k..Len(s) : s[j] = "\n"}
  IN IF breaks = {} THEN SubSeq(s, k, Len(s))
     ELSE SubSeq(s, k, (CHOOSE j \in breaks : \A i \in breaks : j <= i) - 1)

\* A line that is not blank, holds no ":" and whose first character besides
\* whitespace is neither "#" nor "-".
Offending(l) ==
  /\ ~Blank(l)
  /\ \A i \in DOMAIN l : l[i] # ":"
  /\ LET first == CHOOSE i \in DOMAIN l :
                     ~Blank(<<l[i]>>) /\ \A j \in 1..(i - 1) : Blank(<<l[j]>>)
     IN l[first] \notin {"#", "-"}

\* Where the offending lines of the metadata block start.
OffendingStarts ==
  {k \in LineStarts(MetaText) : Offending(LineFrom(MetaText, k))}

IsYamlMessage(m) ==
  Len(m) = 3 /\ m[1] = "Line " /\ m[3] = ": Possible YAML formatting issue"

YamlWarnings ==
  {i \in DOMAIN result.value.warnings : IsYamlMessage(result.value.warnings[i])}

\* C24: for content with a closed metadata block there are as many "Possible
\* YAML formatting issue" warnings as the block has lines that, trimmed, are
\* non-empty, do not start with "#" or "-" and hold no ":", and no two of
\* these warnings are the same: one for each such line, none for another.
C24_YamlWarnings ==
  (ContentDone /\ Opened /\ Closed)
    => /\ Cardinality(YamlWarnings) = Cardinality(OffendingStarts)
       /\ \A i, j \in YamlWarnings :
            result.value.warnings[i] = result.value.warnings[j] => i = j

\* A block of two lines of free text, a key, a list entry, a comment or a
\* blank line, one of them free text: one warning.
C24_Witness ==
  /\ ContentDone
  /\ Opened
  /\ Closed
  /\ Cardinality(LineStarts(MetaText)) = 4
  /\ Cardinality(OffendingStarts) = 1
  /\ Cardinality(YamlWarnings) = 1

\* The number (from 1) of the line of the file in which the metadata line
\* that starts at position k of the block stands.
FileLine(k) ==
  1 + Cardinality({j \in 1..(k + 2) : content[j] = "\n"})

\* The number a warning prints.
NumberPrinted(m) == CHOOSE n \in 0..(Len(content) + 2) : ToString(n) = m[2]

\* C25: the numbers printed in the "Possible YAML formatting issue" warnings
\* are the numbers, counted from 1 at the line of the opening delimiter, of
\* the lines of the file that caused them.
C25_LineNumbers ==
  (ContentDone /\ Opened /\ Closed)
    => {NumberPrinted(result.value.warnings[i]) : i \in YamlWarnings}
         = {FileLine(k) : k \in OffendingStarts}

\* The conventional layout: after the closing delimiter a line break,
\* possibly blank lines, then a line that starts with "# ".
Conventional ==
  \E k \in 1..(Len(Body) - 2) :
    /\ Blank(SubSeq(Body, 1, k))
    /\ Body[1] = "\n"
    /\ Body[k] = "\n"
    /\ Body[k + 1] = "#"
    /\ Body[k + 2] = " "

\* C26: a file in the conventional layout, its heading on a line after the
\* line of the closing delimiter, gets no "main heading" warning.
C26_ConventionalHeading ==
  (ContentDone /\ Opened /\ Closed /\ Conventional)
    => Count(result.value.warnings, IsHeadingMessage) = 0

\* The positions after the opening delimiter at which a delimiter stands at
\* the start of a line.
LineDelimiters ==
  {k \in 4..(Len(content) - 2) :
     SubSeq(content, k, k + 2) = <<"-", "-", "-">> /\ content[k - 1] = "\n"}

\* The text after the first delimiter that starts a line.
LineBody ==
  SubSeq(content,
         (CHOOSE k \in LineDelimiters : \A j \in LineDelimiters : k <= j) + 3,
         Len(content))

\* C27: only a "---" at the start of a line closes the metadata block.
\* Content that starts with "---" and has no later line starting with "---"
\* gets the "must be properly closed" error, also when a metadata value
\* holds "---"; otherwise the body is the text after the first such line:
\* the "No markdown content found" and "very short" warnings are about it.
C27_ClosingStartsLine ==
  (ContentDone /\ Opened)
    => /\ LineDelimiters = {}
            => result.value
                 = Failure("Frontmatter must be properly closed with ---")
       /\ LineDelimiters # {}
            => /\ Count(result.value.warnings, IsNoContentMessage)
                    = Indicator(Blank(LineBody))
               /\ Count(result.value.warnings, IsShortMessage)
                    = Indicator(Len(Trim(LineBody)) < 100)

\* The warnings one run gave and the other did not.
OnlyIn(ws, others) ==
  {ws[i] : i \in DOMAIN ws} \ {others[i] : i \in DOMAIN others}

\* C28: errors and isValid do not depend on the time of the call.  The same
\* record validated at two instants ends the same way both times, with the
\* same isValid and the same errors in the same order; a warning that only
\* one of the two runs gave is a status/date warning.
C28_TimeIndependentErrors ==
  TripTwice
    => /\ result.kind = First.kind
       /\ result.kind = "returned"
            => /\ result.value.isValid = First.value.isValid
               /\ result.value.errors = First.value.errors
               /\ \A m \in OnlyIn(result.value.warnings, First.value.warnings)
                          \cup OnlyIn(First.value.warnings, result.value.warnings) :
                    IsStatusMessage(m)

\* A planned trip whose dates are in the wrong order has been validated
\* before and after its start: the second run alone warns that the start
\* is in the past, and both give the ordering error.
C28_Witness ==
  /\ TripTwice
  /\ previous.now.ms < now.ms
  /\ Status = Str(PLANNED)
  /\ First.kind = "returned"
  /\ Count(First.value.warnings, IsStatusMessage) = 0
  /\ Count(result.value.warnings, IsStatusMessage) = 1
  /\ Count(result.value.errors, IsOrderMessage) = 1
  /\ ~result.value.isValid

\* The catch block has logged the failure of the given step.
FailureLogged(error) ==
  \E i \in DOMAIN log :
    /\ log[i].level = "error"
    /\ log[i].text = <<CROSS, " Content validation error: ", error>>

\* C30: with failOnError = false the hook never rejects: whatever the
\* results are, and when the import, validateAllTrips or the write of the
\* report fails, it ends by resolving.
C30_NeverFailsBuild ==
  (HookOp /\ ~options.failOnError)
    => /\ pc # "threw"
       /\ pc = "done" => result = Returned(Undef)

\* With failOnError = false the hook has resolved although a result was
\* invalid and the write of the report failed.
C30_Witness ==
  /\ HookOp
  /\ ~options.failOnError
  /\ pc = "done"
  /\ results # None
  /\ SomeInvalid
  /\ FailureLogged("writeFileSync")

\* Both validators have been given the record, the script first.
BothDone == op = "tripSchema.validate" /\ pc = "both"

\* What the script returned, or that it raised.
OfScript == previous.out

\* The script accepts the record: it returns no error.
ScriptAccepts == OfScript.kind = "returned" /\ OfScript.value.errors = <<>>

\* validateTripData accepts the record.
Accepted == result.kind = "returned" /\ result.value.isValid

\* stats is a list of entries {id, value, label, icon}.
StatsListed ==
  /\ tripData.t = "object"
  /\ Stats.t = "array"
  /\ \A i \in DOMAIN Stats.a :
       Stats.a[i].t = "object"
         /\ \A k \in {"id", "value", "label", "icon"} :
              ~IsNullish(Get(Stats.a[i], k))

\* C29: the two validators agree on validity.  For every record the script's
\* tripSchema.validate returns no error iff validateTripData returns
\* isValid = true; a record with a list of stats entries that
\* validateTripData accepts is accepted by the script.
C29_ValidatorsAgree ==
  BothDone
    => /\ ScriptAccepts <=> Accepted
       /\ (StatsListed /\ Accepted) => ScriptAccepts

\* The script has ended.
MainExited == op = "main" /\ pc = "exited"

\* args[i] is the value of an --output before it, and no option.
RECURSIVE IsValue(_)
IsValue(i) == i > 1 /\ args[i - 1] \in {"--output", "-o"} /\ ~IsValue(i - 1)

\* The option is among the arguments.
OptionGiven(names) ==
  \E i \in DOMAIN args : args[i] \in names /\ ~IsValue(i)

\* A file has been validated and found invalid (the failure to read the
\* directory or a file counts as one).
InvalidFound ==
  results # None /\ \E i \in DOMAIN Given : ~Given[i].isValid

=============================================================================
